---- MODULE Spec2Model ----
(***************************************************************************)
(* SecureUSB: the Linux daemon's authorization state machine               *)
(* (src/src/daemon/service.py) with its collaborators: the udev monitor    *)
(* (usb_monitor.py), the sysfs authorization port (authorization.py), the  *)
(* credential verifier (auth/totp.py, auth/storage.py), the D-Bus service   *)
(* (dbus_service.py) and the GLib timeout sources.                          *)
(*                                                                         *)
(* Every handler of the daemon is one action.  The handlers are taken as   *)
(* atomic steps; time only passes between handlers (Tick).                 *)
(***************************************************************************)
EXTENDS Integers, Sequences, FiniteSets, TLC

\* ------------------------------------------------------------------ bounds
MaxTime == 60          \* the clock stops advancing here (seconds)
MaxTimers == 2         \* number of GLib timeout sources ever created
MaxRepeat == 2         \* repetitions of one port call that are told apart
MaxCodeLen == 2        \* length of the recovery codes that are hashed

\* ------------------------------------------------------- program constants
TOTP_CODE_LENGTH == 6
TOTP_TIME_WINDOW_SECONDS == 30
TOTP_MAX_VALIDATION_WINDOW == 5
StartTime == TOTP_TIME_WINDOW_SECONDS    \* clock value when the daemon starts
TickSeconds == TOTP_TIME_WINDOW_SECONDS  \* the clock advances by one TOTP step
MinTimeout == 10
MaxTimeout == 300
DefaultTimeout == 30

Devices == {"1-1", "1-2"}
SerialOf == [d \in Devices |-> IF d = "1-1" THEN "S1" ELSE ""]
Serials == {"S1", ""}
Modes == {"full", "power_only", "deny", "other"}

NoCode == <<>>

\* ------------------------------------------------------------- credentials
Digits == {"0", "1", "2", "3", "4", "5", "6", "7", "8", "9"}
DigitOf == <<"0", "1", "2", "3", "4", "5", "6", "7", "8", "9">>

RECURSIVE Remove(_, _)
\* str.replace(c, ''): drops every occurrence of the character c
Remove(s, c) ==
    IF s = <<>> THEN <<>>
    ELSE IF Head(s) = c THEN Remove(Tail(s), c)
         ELSE <<Head(s)>> \o Remove(Tail(s), c)

UpperChar(c) ==
    CASE c = "a" -> "A" [] c = "b" -> "B" [] c = "c" -> "C" [] OTHER -> c

\* str.upper()
Upper(s) == [i \in 1..Len(s) |-> UpperChar(s[i])]

\* str.isdigit(): non-empty and all characters are digits
IsDigit(s) == Len(s) > 0 /\ \A i \in 1..Len(s) : s[i] \in Digits

\* the TOTP value of one 30-second counter (pyotp.TOTP.at); distinct counters
\* of the modelled time span have distinct values
TotpAt(counter) == <<"0", "0", "0", "0", "0", DigitOf[(counter % 10) + 1]>>

TimeCode(t) == t \div TOTP_TIME_WINDOW_SECONDS

\* pyotp.TOTP.verify(code, valid_window=window) at clock t
TotpVerify(code, window, t) ==
    \E i \in (0 - window)..window : code = TotpAt(TimeCode(t) + i)

Clamp(lo, hi, x) == IF x < lo THEN lo ELSE IF x > hi THEN hi ELSE x

LowerChar(c) ==
    CASE c = "A" -> "a" [] c = "B" -> "b" [] c = "C" -> "c" [] OTHER -> c

\* str.lower()
Lower(s) == [i \in 1..Len(s) |-> LowerChar(s[i])]

\* a hash_code that leaves the case of the letters as it is
hash_code_case_kept(code) == <<"sha256">> \o Remove(code, "-")

\* RecoveryCodeManager.hash_code
hash_code(code) == <<"sha256">> \o Upper(Remove(code, "-"))

\* RecoveryCodeManager.verify_code
recovery_verify_code(code, hashed_code) == hash_code(code) = hashed_code

Rec1 == <<"a", "b", "-", "c", "2">>
Rec2 == <<"D", "E", "-", "F", "3">>
BadCode == <<"9", "9", "9", "9", "9", "9">>
PresentedCodes ==
    {NoCode, TotpAt(1), BadCode}

VARIABLES
    ports,                  \* device ids of the USB ports in use
    now,                    \* time.time()
    present,                \* device ids whose sysfs directory exists
    authorized,             \* sysfs .../authorized of each device
    authorized_default,     \* sysfs usb*/authorized_default
    seen_devices,           \* USBMonitor.seen_devices
    enabled,                \* Config general.enabled
    timeout_seconds,        \* Config general.timeout_seconds
    totp_auth,              \* SecureUSBDaemon.totp_auth is set
    last_used_code,         \* TOTPAuthenticator._last_used_code
    last_used_time,         \* TOTPAuthenticator._last_used_time
    recovery_codes,         \* SecureUSBDaemon.recovery_codes
    stored_codes,           \* recovery_codes in auth.enc
    accepted,               \* the codes verification has accepted: when
                            \* last, and whether ever again after a first time
    whitelist,              \* DeviceWhitelist.devices (its keys)
    pending_authorizations, \* SecureUSBDaemon.pending_authorizations
    timeout_timers,         \* SecureUSBDaemon.timeout_timers
    sources,                \* armed GLib timeout sources
    next_source_id,         \* next id GLib hands out
    pending_requests,       \* SecureUSBService.pending_requests (its keys)
    last,                   \* what the last handler did
    instance,               \* per device: no connection awaiting a decision
                            \* yet ("none"), a connection without a terminal
                            \* outcome ("open"), one that got it ("settled")
    monitor_pc,             \* where the monitor thread is in a handler
    attached,               \* desktop ports: device ids physically connected
    known_devices,          \* MacUSBMonitor._known_devices (its ids)
    events,                 \* MacUSBMonitor._events, the queue
    poll,                   \* where the poller thread is in _run
    drained,                \* _drain_events: the events still to dispatch
    observed,               \* what was announced and what the app has seen
    pending,                \* SecureUSBMacApp.pending
    dialogs                 \* the AuthorizationDialog objects created so far

vars == <<ports, now, present, authorized, authorized_default, seen_devices,
          enabled, timeout_seconds, totp_auth, last_used_code, last_used_time,
          recovery_codes, stored_codes, accepted, whitelist,
          pending_authorizations, timeout_timers, sources, next_source_id,
          pending_requests, last, instance, monitor_pc,
          attached, known_devices, events, poll, drained, observed, pending,
          dialogs>>

envVars == <<ports, now, present>>
credVars == <<last_used_code, last_used_time, recovery_codes, stored_codes,
              accepted>>
cfgVars == <<enabled, timeout_seconds, totp_auth>>
portVars == <<attached, known_devices, events, poll, drained, observed,
              pending, dialogs>>


\* ----------------------------------------------------------------- helpers
RECURSIVE RemoveFirst(_, _)
\* list.remove(x): drops the first occurrence of x
RemoveFirst(s, x) ==
    IF s = <<>> THEN <<>>
    ELSE IF Head(s) = x THEN Tail(s)
         ELSE <<Head(s)>> \o RemoveFirst(Tail(s), x)

InSeq(x, s) == \E i \in 1..Len(s) : s[i] = x

\* del mapping[key]
DelKey(f, k) == [x \in (DOMAIN f) \ {k} |-> f[x]]

\* mapping[key] = value
SetKey(f, k, v) == [x \in (DOMAIN f) \cup {k} |-> IF x = k THEN v ELSE f[x]]

\* USBDevice.to_dict
to_dict(d) == [device_id |-> d, serial_number |-> SerialOf[d]]

\* One observable effect of a handler: a port call, an audit row
\* (USBLogger.log_event), a D-Bus signal, a GLib call, a change of the
\* pending table, a verification, a whitelist update.
Event(kind, name, d, arg, ok, id, time) ==
    [kind |-> kind, name |-> name, device_id |-> d, arg |-> arg, ok |-> ok,
     id |-> id, time |-> time]

Call(fn, d, ok) == Event("call", fn, d, "", ok, 0, 0)
Row(action, d, details) == Event("row", action, d, details, TRUE, 0, 0)
Signal(name, d, result, success) == Event("signal", name, d, result, success, 0, 0)
SourceRemove(d, id) == Event("source_remove", "", d, "", TRUE, id, 0)
TimeoutAdd(d, id, interval) == Event("timeout_add", "", d, "", TRUE, id, interval)
PendingInsert(d) == Event("pending_insert", "", d, "", TRUE, 0, 0)
PendingDelete(d) == Event("pending_delete", "", d, "", TRUE, 0, 0)
Verified(d, ok) == Event("verify", "", d, "", ok, 0, 0)
UpdateUsage(d, serial) == Event("update_usage", serial, d, "", TRUE, 0, 0)
Raise(fn, d) == Event("raise", "ValueError", d, fn, FALSE, 0, 0)

DetailsUserDenied == "User denied authorization"
DetailsTimeout == "Authorization timeout (auto-deny)"
DetailsAuthFailed == "Invalid TOTP code or recovery code"
DetailsPowerOnly == "Power-only mode (charging only)"
NoDetails == "None"

\* what one handler run did, in the order it did it
Effects(op, d, mode, result, trace) ==
    [op |-> op, device_id |-> d, mode |-> mode, result |-> result,
     trace |-> trace,
     was_pending |-> d \in DOMAIN pending_authorizations,
     was_settled |-> d \in Devices /\ instance[d] = "settled"]

\* the connection instance of device d gets a terminal outcome
Settle(d) == [instance EXCEPT ![d] = IF @ = "open" THEN "settled" ELSE @]

IsCall(e) == e.kind = "call"
IsRow(e) == e.kind = "row"
IsSignal(e) == e.kind = "signal"
IsSourceRemove(e) == e.kind = "source_remove"
IsTimeoutAdd(e) == e.kind = "timeout_add"
Calls(t) == SelectSeq(t, IsCall)
Rows(t) == SelectSeq(t, IsRow)
Signals(t) == SelectSeq(t, IsSignal)
Has(t, e) == \E i \in 1..Len(t) : t[i] = e

\* ------------------------------------------------- DeviceAuthorizationPort
\* the device ids a caller of the D-Bus methods or of the port can send: those
\* of the USB ports, one with a path separator, the parent directory
TraversalId == "../1-1"
ParentId == ".."
RequestIds == Devices \cup {TraversalId, ParentId}

\* the characters of a device id
IdText(d) ==
    CASE d = "1-1" -> <<"1", "-", "1">>
      [] d = "1-2" -> <<"1", "-", "2">>
      [] d = TraversalId -> <<".", ".", "/", "1", "-", "1">>
      [] d = ParentId -> <<".", ".">>
      [] d = "" -> <<>>

\* the characters of the class [\w\-.:]
IdChars == Digits \cup {"a", "b", "c", "A", "B", "C", "_", "-", ".", ":"}

\* USBAuthorization.get_device_path: re.match(r'^[\w\-.:]+$', device_id);
\* FALSE when it raises ValueError
get_device_path(d) ==
    LET t == IdText(d)
    IN  Len(t) > 0 /\ \A i \in 1..Len(t) : t[i] \in IdChars

\* os.geteuid() == 0: the daemon exits at start-up otherwise
is_root == TRUE

\* USBAuthorization.authorize_device: the result of writing the authorized
\* file of device d; io is FALSE when the write raises
authorize_device(d, io) == is_root /\ d \in present /\ io

\* USBAuthorization.authorize_device lets the ValueError of get_device_path
\* escape
authorize_device_raises(d) == is_root /\ ~get_device_path(d)

\* USBAuthorization._unbind_interfaces: False when iterdir raises
unbind_interfaces(d) == d \in present

\* USBAuthorization.set_power_only_mode
set_power_only_mode(d, io) == authorize_device(d, io) /\ unbind_interfaces(d)

\* the authorized files after authorize_device(d, value)
Written(auth, d, value, io) ==
    IF authorize_device(d, io) THEN [auth EXCEPT ![d] = value] ELSE auth

\* ------------------------------------------------------ CredentialVerifier
\* a verify_code without the check of the last used code
totp_verify_code_no_reuse_check(code, window, t, luc, lut) ==
    LET w == Clamp(0, TOTP_MAX_VALIDATION_WINDOW, window)
        c == Remove(Remove(code, " "), "-")
        unchanged == [ok |-> FALSE, code |-> luc, time |-> lut]
    IN  IF ~IsDigit(c) \/ Len(c) # TOTP_CODE_LENGTH THEN unchanged
        ELSE IF TotpVerify(c, w, t) THEN [ok |-> TRUE, code |-> c, time |-> t]
        ELSE unchanged

\* TOTPAuthenticator.verify_code at clock t with replay state (luc, lut)
totp_verify_code(code, window, t, luc, lut) ==
    LET w == Clamp(0, TOTP_MAX_VALIDATION_WINDOW, window)
        c == Remove(Remove(code, " "), "-")
        unchanged == [ok |-> FALSE, code |-> luc, time |-> lut]
    IN  IF ~IsDigit(c) \/ Len(c) # TOTP_CODE_LENGTH THEN unchanged
        ELSE IF c = luc /\ (t - lut) < TOTP_TIME_WINDOW_SECONDS THEN unchanged
        ELSE IF TotpVerify(c, w, t) THEN [ok |-> TRUE, code |-> c, time |-> t]
        ELSE unchanged

\* SecureStorage.remove_recovery_code: the stored list afterwards; store_ok is
\* FALSE when loading or saving auth.enc fails
remove_recovery_code(stored, code_hash, store_ok) ==
    IF store_ok /\ InSeq(code_hash, stored) THEN RemoveFirst(stored, code_hash)
    ELSE stored

\* a _verify_authentication that forgets the last used code when it refuses
verify_authentication_forgets(code, store_ok) ==
    LET t == totp_verify_code(code, 1, now, last_used_code, last_used_time)
        same == [ok |-> FALSE, code |-> NoCode, time |-> 0,
                 recovery |-> recovery_codes, stored |-> stored_codes]
        matches == {i \in 1..Len(recovery_codes) :
                        recovery_verify_code(code, recovery_codes[i])}
    IN  IF code = NoCode THEN same
        ELSE IF totp_auth /\ t.ok
             THEN [same EXCEPT !.ok = TRUE, !.code = t.code, !.time = t.time]
        ELSE IF matches # {}
             THEN LET h == recovery_codes[CHOOSE i \in matches :
                                              \A j \in matches : i <= j]
                  IN  [same EXCEPT !.ok = TRUE,
                         !.code = last_used_code, !.time = last_used_time,
                         !.recovery = RemoveFirst(recovery_codes, h),
                         !.stored = remove_recovery_code(stored_codes, h, store_ok)]
        ELSE same

\* SecureUSBDaemon._verify_authentication
verify_authentication(code, store_ok) ==
    LET t == totp_verify_code(code, 1, now, last_used_code, last_used_time)
        same == [ok |-> FALSE, code |-> last_used_code, time |-> last_used_time,
                 recovery |-> recovery_codes, stored |-> stored_codes]
        matches == {i \in 1..Len(recovery_codes) :
                        recovery_verify_code(code, recovery_codes[i])}
    IN  IF code = NoCode THEN same
        ELSE IF totp_auth /\ t.ok
             THEN [same EXCEPT !.ok = TRUE, !.code = t.code, !.time = t.time]
        ELSE IF matches # {}
             THEN LET h == recovery_codes[CHOOSE i \in matches :
                                              \A j \in matches : i <= j]
                  IN  [same EXCEPT !.ok = TRUE,
                         !.recovery = RemoveFirst(recovery_codes, h),
                         !.stored = remove_recovery_code(stored_codes, h, store_ok)]
        ELSE same

\* the record of the codes accepted so far after a verification of code with
\* outcome v. A TOTP code is entered as normalised, a recovery code by its
\* hash; `again` marks a recovery code accepted a second time and a TOTP code
\* accepted a second time less than one time step after the time before.
Accepted(code, v) ==
    LET rec == v.recovery # recovery_codes
        key == IF rec THEN hash_code(code) ELSE v.code
        seen == key \in DOMAIN accepted
        repeated == seen /\ (rec \/ now - accepted[key].time
                                        < TOTP_TIME_WINDOW_SECONDS)
    IN  IF ~v.ok THEN accepted
        ELSE SetKey(accepted, key,
                    [time |-> now,
                     again |-> repeated \/ (seen /\ accepted[key].again)])

\* the monitor thread is in no handler
Idle == [pc |-> "idle", device_id |-> ""]
\* the poller thread of a desktop port sleeps between two passes of _run
Sleeping == [pc |-> "sleeping", current |-> {}, todo |-> <<>>]

\* -------------------------------------------------------------------- Init
TimeoutValues == {MinTimeout, DefaultTimeout}

\* SecureUSBDaemon.__init__ and start()
InitDaemon ==
    /\ now = StartTime
    /\ present = {}
    /\ authorized = [d \in Devices |-> "0"]
    /\ seen_devices = {}
    /\ enabled \in BOOLEAN
    /\ timeout_seconds \in TimeoutValues
    /\ totp_auth \in BOOLEAN
    /\ authorized_default = IF enabled /\ totp_auth THEN "0" ELSE "1"
    /\ last_used_code = NoCode
    /\ last_used_time = 0
    /\ accepted = <<>>
    /\ whitelist = {"S1"}
    /\ pending_authorizations = <<>>
    /\ timeout_timers = <<>>
    /\ sources = {}
    /\ next_source_id = 1
    /\ pending_requests = {}
    /\ last = [op |-> "init", device_id |-> "", mode |-> "", result |-> "",
               trace |-> <<>>, was_pending |-> FALSE, was_settled |-> FALSE]
    /\ instance = [d \in Devices |-> "none"]
    /\ monitor_pc = Idle
    /\ attached = {}
    /\ known_devices = {}
    /\ events = <<>>
    /\ poll = Sleeping
    /\ drained = <<>>
    /\ observed = [count |-> 0, seen |-> [d \in Devices |-> "none"],
                   announced |-> {}]
    /\ pending = <<>>
    /\ dialogs = <<>>

\* one USB port in use, every recovery code already used up
Init ==
    /\ InitDaemon
    /\ ports = {"1-1"}
    /\ recovery_codes = <<>>
    /\ stored_codes = <<>>

\* ------------------------------------------------------------- environment
\* one step of the clock
Tick ==
    /\ now + TickSeconds <= MaxTime
    /\ now' = now + TickSeconds
    /\ UNCHANGED <<monitor_pc, portVars, ports, present, authorized, authorized_default, seen_devices,
                   cfgVars, credVars, whitelist, pending_authorizations,
                   timeout_timers, sources, next_source_id, pending_requests,
                   last, instance>>

\* ---------------------------------------------------------------- handlers
\* GLib.source_remove(id)
source_remove(srcs, id) == {s \in srcs : s.id # id}

\* GLib.timeout_add_seconds(interval, callback, d) returning id
timeout_add_seconds(srcs, id, d, interval) ==
    srcs \cup {[id |-> id, device_id |-> d, deadline |-> now + interval]}

\* SecureUSBService.emit_authorization_result / emit_device_disconnected:
\* the service's pending_requests afterwards
Forget(reqs, d) == reqs \ {d}

\* `if key in mapping: del mapping[key]` as an effect
Deleted(f, d) == IF d \in DOMAIN f THEN <<PendingDelete(d)>> ELSE <<>>

\* a connect handler that lets a whitelisted serial number through
allow_on_connect_whitelisted(d) ==
    ~enabled \/ ~totp_auth \/ (SerialOf[d] # "" /\ SerialOf[d] \in whitelist)

\* a connect handler that asks for a decision whenever protection is enabled
allow_on_connect_when_disabled(d) == ~enabled

\* _handle_device_connected: the device is let through without a decision
allow_on_connect(d) == ~enabled \/ ~totp_auth

\* a connect handler that ignores the configured timeout
connect_timeout_default == DefaultTimeout

\* _handle_device_connected: the interval of the auto-deny timer
connect_timeout == timeout_seconds

\* SecureUSBDaemon._handle_device_connected
handle_device_connected(d, sysfs, io) ==
    LET row == Row("connected", d, NoDetails)
    IN  IF allow_on_connect(d)
        THEN /\ authorized' = [sysfs EXCEPT ![d] = IF io THEN "1" ELSE @]
             /\ last' = Effects("connect", d, "", "",
                                <<row, Call("allow_device", d, io)>>)
             /\ instance' = [instance EXCEPT ![d] = "none"]
             /\ UNCHANGED <<pending_authorizations, timeout_timers, sources,
                            next_source_id, pending_requests>>
        ELSE /\ next_source_id <= MaxTimers
             /\ now + connect_timeout <= MaxTime
             /\ authorized' = [sysfs EXCEPT ![d] = IF io THEN "0" ELSE @]
             /\ pending_authorizations' =
                    SetKey(pending_authorizations, d, to_dict(d))
             /\ pending_requests' = pending_requests \cup {d}
             /\ sources' = timeout_add_seconds(sources, next_source_id, d,
                                               connect_timeout)
             /\ next_source_id' = next_source_id + 1
             /\ timeout_timers' = SetKey(timeout_timers, d, next_source_id)
             /\ last' = Effects("connect", d, "", "",
                            <<row, Call("block_device", d, io), PendingInsert(d),
                              Signal("DeviceConnected", d, "", FALSE),
                              TimeoutAdd(d, next_source_id, connect_timeout)>>)
             /\ instance' = [instance EXCEPT ![d] = "open"]

\* a disconnect handler that drops the timer reference without cancelling it
disconnect_sources_kept(d) == sources

\* _handle_device_disconnected: the timer sources after its clean-up
disconnect_sources(d) ==
    IF d \in DOMAIN timeout_timers
    THEN source_remove(sources, timeout_timers[d]) ELSE sources

\* a disconnect handler that gives up the pending entries and timers of all
\* devices
handle_device_disconnected_clears_all(d) ==
    LET timed == d \in DOMAIN timeout_timers
    IN  /\ pending_authorizations' = <<>>
        /\ sources' = {}
        /\ timeout_timers' = <<>>
        /\ pending_requests' = Forget(pending_requests, d)
        /\ last' = Effects("disconnect", d, "", "",
                       <<Row("disconnected", d, NoDetails)>>
                       \o Deleted(pending_authorizations, d)
                       \o (IF timed THEN <<SourceRemove(d, timeout_timers[d])>>
                           ELSE <<>>)
                       \o <<Signal("DeviceDisconnected", d, "", FALSE)>>)
        /\ instance' = IF d \in DOMAIN pending_authorizations THEN Settle(d)
                       ELSE instance
        /\ UNCHANGED next_source_id

\* SecureUSBDaemon._handle_device_disconnected
handle_device_disconnected(d) ==
    LET timed == d \in DOMAIN timeout_timers
    IN  /\ pending_authorizations' = DelKey(pending_authorizations, d)
        /\ sources' = disconnect_sources(d)
        /\ timeout_timers' = DelKey(timeout_timers, d)
        /\ pending_requests' = Forget(pending_requests, d)
        /\ last' = Effects("disconnect", d, "", "",
                       <<Row("disconnected", d, NoDetails)>>
                       \o Deleted(pending_authorizations, d)
                       \o (IF timed THEN <<SourceRemove(d, timeout_timers[d])>>
                           ELSE <<>>)
                       \o <<Signal("DeviceDisconnected", d, "", FALSE)>>)
        /\ instance' = IF d \in DOMAIN pending_authorizations THEN Settle(d)
                       ELSE instance
        /\ UNCHANGED next_source_id

\* the udev actions the kernel sends for a usb_device
UdevActions == {"add", "remove", "bind"}

\* a monitor that hands every add event to the daemon
on_event_every_add(d, action) ==
    /\ d \in ports
    /\ action = "add" \/ d \in present
    /\ present' = IF action = "remove" THEN present \ {d}
                  ELSE present \cup {d}
    /\ UNCHANGED <<monitor_pc, portVars, ports, now, authorized_default, cfgVars, credVars, whitelist>>
    /\ LET key == <<d, "add">>
           sysfs == IF d \in present
                    THEN [authorized EXCEPT ![d] =
                             IF action = "remove" THEN "0" ELSE @]
                    ELSE [authorized EXCEPT ![d] = authorized_default]
       IN  IF action = "add"
           THEN /\ seen_devices' = seen_devices \cup {key}
                /\ \E io \in BOOLEAN : handle_device_connected(d, sysfs, io)
           ELSE IF action = "remove"
           THEN /\ seen_devices' = seen_devices \ {key}
                /\ authorized' = sysfs
                /\ handle_device_disconnected(d)
           ELSE /\ authorized' = sysfs
                /\ UNCHANGED <<seen_devices, pending_authorizations,
                               timeout_timers, sources, next_source_id,
                               pending_requests, last, instance>>

\* USBMonitor._on_event(device) for a udev event of device d.  A remove event
\* comes with the removal of the device's sysfs directory; an add event for
\* an absent device comes with its creation (with the default authorization),
\* an add event for a present device is a replayed one (udevadm trigger).
on_event(d, action) ==
    /\ d \in ports
    /\ action = "add" \/ d \in present
    /\ present' = IF action = "remove" THEN present \ {d}
                  ELSE present \cup {d}
    /\ UNCHANGED <<monitor_pc, portVars, ports, now, authorized_default, cfgVars, credVars, whitelist>>
    /\ LET key == <<d, "add">>
           sysfs == IF d \in present
                    THEN [authorized EXCEPT ![d] =
                             IF action = "remove" THEN "0" ELSE @]
                    ELSE [authorized EXCEPT ![d] = authorized_default]
       IN  IF action = "add" /\ key \notin seen_devices
           THEN /\ seen_devices' = seen_devices \cup {key}
                /\ \E io \in BOOLEAN : handle_device_connected(d, sysfs, io)
           ELSE IF action = "remove"
           THEN /\ seen_devices' = seen_devices \ {key}
                /\ authorized' = sysfs
                /\ handle_device_disconnected(d)
           ELSE /\ authorized' = sysfs
                /\ UNCHANGED <<seen_devices, pending_authorizations,
                               timeout_timers, sources, next_source_id,
                               pending_requests, last, instance>>

\* a _deny_device that writes the audit row of the automatic denial
deny_trace_timeout_details(d, io) ==
    <<Call("block_device", d, authorize_device(d, io)),
      Row("denied", d, DetailsTimeout),
      Signal("AuthorizationResult", d, "denied", FALSE)>>
    \o Deleted(pending_authorizations, d)

\* SecureUSBDaemon._deny_device: what it does, in order
deny_trace(d, io) ==
    <<Call("block_device", d, authorize_device(d, io)),
      Row("denied", d, DetailsUserDenied),
      Signal("AuthorizationResult", d, "denied", FALSE)>>
    \o Deleted(pending_authorizations, d)

\* SecureUSBDaemon._deny_device: its changes of the state
deny_device(d, io) ==
    /\ authorized' = Written(authorized, d, "0", io)
    /\ pending_authorizations' = DelKey(pending_authorizations, d)
    /\ pending_requests' = Forget(pending_requests, d)

\* _handle_authorization_request, mode 'deny'
request_deny(d, pre, io) ==
    /\ deny_device(d, io)
    /\ instance' = Settle(d)
    /\ last' = Effects("decision", d, "deny", "success", pre \o deny_trace(d, io))

\* an auth-failure path that gives up the pending entry
request_auth_failed_forgets(d, mode, pre) ==
    /\ last' = Effects("decision", d, mode, "auth_failed",
                       pre \o <<Verified(d, FALSE),
                                Row("auth_failed", d, DetailsAuthFailed)>>)
    /\ pending_authorizations' = DelKey(pending_authorizations, d)
    /\ UNCHANGED <<authorized, pending_requests, instance>>

\* _handle_authorization_request, the code did not verify
request_auth_failed(d, mode, pre) ==
    /\ last' = Effects("decision", d, mode, "auth_failed",
                       pre \o <<Verified(d, FALSE),
                                Row("auth_failed", d, DetailsAuthFailed)>>)
    /\ UNCHANGED <<authorized, pending_authorizations, pending_requests, instance>>

\* a full authorization that leaves the pending entry in the table
authorize_device_full_no_cleanup(d, serial, pre, io) ==
    IF authorize_device(d, io)
    THEN /\ authorized' = Written(authorized, d, "1", io)
         /\ pending_requests' = Forget(pending_requests, d)
         /\ instance' = Settle(d)
         /\ last' = Effects("decision", d, "full", "success",
                pre \o <<Call("allow_device", d, TRUE),
                         Row("authorized", d, NoDetails)>>
                \o (IF serial # "" /\ serial \in whitelist
                    THEN <<UpdateUsage(d, serial)>> ELSE <<>>)
                \o <<Signal("AuthorizationResult", d, "authorized", TRUE)>>)
         /\ UNCHANGED pending_authorizations
    ELSE /\ last' = Effects("decision", d, "full", "error",
                            pre \o <<Call("allow_device", d, FALSE)>>)
         /\ UNCHANGED <<authorized, pending_authorizations, pending_requests,
                        instance>>

\* SecureUSBDaemon._authorize_device_full
authorize_device_full(d, serial, pre, io) ==
    IF authorize_device(d, io)
    THEN /\ authorized' = Written(authorized, d, "1", io)
         /\ pending_authorizations' = DelKey(pending_authorizations, d)
         /\ pending_requests' = Forget(pending_requests, d)
         /\ instance' = Settle(d)
         /\ last' = Effects("decision", d, "full", "success",
                pre \o <<Call("allow_device", d, TRUE),
                         Row("authorized", d, NoDetails)>>
                \o (IF serial # "" /\ serial \in whitelist
                    THEN <<UpdateUsage(d, serial)>> ELSE <<>>)
                \o <<Signal("AuthorizationResult", d, "authorized", TRUE)>>
                \o Deleted(pending_authorizations, d))
    ELSE /\ last' = Effects("decision", d, "full", "error",
                            pre \o <<Call("allow_device", d, FALSE)>>)
         /\ UNCHANGED <<authorized, pending_authorizations, pending_requests,
                        instance>>

\* a power-only authorization that writes the value of full access
authorize_device_power_only_grants(d, pre, io) ==
    IF set_power_only_mode(d, io)
    THEN /\ authorized' = Written(authorized, d, "1", io)
         /\ pending_authorizations' = DelKey(pending_authorizations, d)
         /\ pending_requests' = Forget(pending_requests, d)
         /\ instance' = Settle(d)
         /\ last' = Effects("decision", d, "power_only", "success",
                pre \o <<Call("set_power_only_mode", d, TRUE),
                         Row("authorized_power_only", d, DetailsPowerOnly),
                         Signal("AuthorizationResult", d, "power_only", TRUE)>>
                \o Deleted(pending_authorizations, d))
    ELSE /\ last' = Effects("decision", d, "power_only", "error",
                            pre \o <<Call("set_power_only_mode", d, FALSE)>>)
         /\ UNCHANGED <<authorized, pending_authorizations, pending_requests,
                        instance>>

\* SecureUSBDaemon._authorize_device_power_only
authorize_device_power_only(d, pre, io) ==
    IF set_power_only_mode(d, io)
    THEN /\ authorized' = Written(authorized, d, "0", io)
         /\ pending_authorizations' = DelKey(pending_authorizations, d)
         /\ pending_requests' = Forget(pending_requests, d)
         /\ instance' = Settle(d)
         /\ last' = Effects("decision", d, "power_only", "success",
                pre \o <<Call("set_power_only_mode", d, TRUE),
                         Row("authorized_power_only", d, DetailsPowerOnly),
                         Signal("AuthorizationResult", d, "power_only", TRUE)>>
                \o Deleted(pending_authorizations, d))
    ELSE /\ last' = Effects("decision", d, "power_only", "error",
                            pre \o <<Call("set_power_only_mode", d, FALSE)>>)
         /\ UNCHANGED <<authorized, pending_authorizations, pending_requests,
                        instance>>

\* _handle_authorization_request left by the ValueError of the port call fn
request_raised(d, mode, pre, fn) ==
    /\ last' = Effects("decision", d, mode, "ValueError", pre \o <<Raise(fn, d)>>)
    /\ UNCHANGED <<authorized, pending_authorizations, pending_requests, instance>>

\* _handle_authorization_request: the timer sources after its first step
request_sources(d) ==
    IF d \in DOMAIN timeout_timers
    THEN source_remove(sources, timeout_timers[d]) ELSE sources

\* SecureUSBDaemon._handle_authorization_request
handle_authorization_request(device_info, totp_code, mode, io, store_ok) ==
    LET d == device_info.device_id
        serial == device_info.serial_number
        cancel == IF d \in DOMAIN timeout_timers
                  THEN <<SourceRemove(d, timeout_timers[d])>> ELSE <<>>
        v == verify_authentication(totp_code, store_ok)
        passed == cancel \o <<Verified(d, TRUE), Row("auth_success", d, NoDetails)>>
    IN  /\ sources' = request_sources(d)
        /\ timeout_timers' = DelKey(timeout_timers, d)
        /\ UNCHANGED next_source_id
        /\ IF mode = "deny"
           THEN /\ IF authorize_device_raises(d)
                   THEN request_raised(d, mode, cancel, "block_device")
                   ELSE request_deny(d, cancel, io)
                /\ UNCHANGED credVars
           ELSE /\ last_used_code' = v.code
                /\ last_used_time' = v.time
                /\ recovery_codes' = v.recovery
                /\ stored_codes' = v.stored
                /\ accepted' = Accepted(totp_code, v)
                /\ IF ~v.ok THEN request_auth_failed(d, mode, cancel)
                   ELSE IF mode = "full" /\ authorize_device_raises(d)
                   THEN request_raised(d, mode, passed, "allow_device")
                   ELSE IF mode = "full"
                   THEN authorize_device_full(d, serial, passed, io)
                   ELSE IF mode = "power_only" /\ authorize_device_raises(d)
                   THEN request_raised(d, mode, passed, "set_power_only_mode")
                   ELSE IF mode = "power_only"
                   THEN authorize_device_power_only(d, passed, io)
                   ELSE /\ last' = Effects("decision", d, mode, "error", passed)
                        /\ UNCHANGED <<authorized, pending_authorizations,
                                       pending_requests, instance>>

\* SecureUSBService.AuthorizeDevice
AuthorizeDevice(d, serial, totp_code, auth_mode, io, store_ok) ==
    /\ handle_authorization_request([device_id |-> d, serial_number |-> serial],
                                    totp_code, auth_mode, io, store_ok)
    /\ UNCHANGED <<monitor_pc, portVars, ports, now, present, authorized_default, seen_devices,
                   cfgVars, whitelist>>

\* SecureUSBService.DenyDevice
DenyDevice(d, io) ==
    /\ handle_authorization_request([device_id |-> d, serial_number |-> ""],
                                    NoCode, "deny", io, TRUE)
    /\ UNCHANGED <<monitor_pc, portVars, ports, now, present, authorized_default, seen_devices,
                   cfgVars, whitelist>>

\* a timeout handler that denies the device whether it is pending or not
handle_authorization_timeout_denies_always(src, io) ==
    LET d == src.device_id
    IN  /\ src \in sources
        /\ now >= src.deadline
        /\ sources' = sources \ {src}
        /\ timeout_timers' = DelKey(timeout_timers, d)
        /\ deny_device(d, io)
        /\ instance' = Settle(d)
        /\ last' = Effects("timeout", d, "", "False",
                           deny_trace(d, io)
                           \o <<Row("denied", d, DetailsTimeout)>>)
        /\ UNCHANGED <<monitor_pc, portVars, ports, now, present, authorized_default, seen_devices,
                       cfgVars, credVars, whitelist, next_source_id>>

\* SecureUSBDaemon._handle_authorization_timeout, run by the GLib main loop
\* when the timeout source src is due; it returns False, which destroys src
handle_authorization_timeout(src, io) ==
    LET d == src.device_id
        waiting == d \in DOMAIN pending_authorizations
    IN  /\ src \in sources
        /\ now >= src.deadline
        /\ sources' = sources \ {src}
        /\ timeout_timers' = DelKey(timeout_timers, d)
        /\ IF waiting
           THEN /\ deny_device(d, io)
                /\ instance' = Settle(d)
                /\ last' = Effects("timeout", d, "", "False",
                               deny_trace(d, io)
                               \o <<Row("denied", d, DetailsTimeout)>>)
           ELSE /\ last' = Effects("timeout", d, "", "False", <<>>)
                /\ UNCHANGED <<authorized, pending_authorizations,
                               pending_requests, instance>>
        /\ UNCHANGED <<monitor_pc, portVars, ports, now, present, authorized_default, seen_devices,
                       cfgVars, credVars, whitelist, next_source_id>>

\* a set_enabled that lets the waiting devices through when it disables
SetEnabledReleasesPending(value, save_ok) ==
    /\ enabled' = value
    /\ authorized_default' = IF save_ok THEN (IF value THEN "0" ELSE "1")
                             ELSE authorized_default
    /\ last' = Effects("set_enabled", "", "", IF save_ok THEN "True" ELSE "False",
                       IF save_ok
                       THEN <<Signal("ProtectionStateChanged", "", "", value)>>
                       ELSE <<>>)
    /\ pending_authorizations' =
          IF value THEN pending_authorizations ELSE <<>>
    /\ authorized' = [d \in Devices |->
                        IF ~value /\ d \in DOMAIN pending_authorizations
                        THEN "1" ELSE authorized[d]]
    /\ UNCHANGED <<monitor_pc, portVars, ports, now, present, seen_devices,
                   timeout_seconds, totp_auth, credVars, whitelist,
                   timeout_timers, sources,
                   next_source_id, pending_requests, instance>>

\* SecureUSBDaemon._handle_config_request('set_enabled', value); save_ok is
\* FALSE when writing config.json fails
SetEnabled(value, save_ok) ==
    /\ enabled' = value
    /\ authorized_default' = IF save_ok THEN (IF value THEN "0" ELSE "1")
                             ELSE authorized_default
    /\ last' = Effects("set_enabled", "", "", IF save_ok THEN "True" ELSE "False",
                       IF save_ok
                       THEN <<Signal("ProtectionStateChanged", "", "", value)>>
                       ELSE <<>>)
    /\ UNCHANGED <<monitor_pc, portVars, ports, now, present, authorized, seen_devices,
                   timeout_seconds, totp_auth, credVars, whitelist,
                   pending_authorizations, timeout_timers, sources,
                   next_source_id, pending_requests, instance>>

\* SecureUSBDaemon._handle_config_request('remove_whitelist', serial)
RemoveFromWhitelist(serial) ==
    /\ whitelist' = whitelist \ {serial}
    /\ last' = Effects("remove_whitelist", "", "",
                       IF serial \in whitelist THEN "True" ELSE "False", <<>>)
    /\ UNCHANGED <<monitor_pc, portVars, ports, now, present, authorized, authorized_default,
                   seen_devices, cfgVars, credVars, pending_authorizations,
                   timeout_timers, sources, next_source_id, pending_requests,
                   instance>>

\* the inputs a handler consults: the outcome of a sysfs write (only a
\* present device has a file to write), the serial number and the code the
\* caller sends (read only on the paths that use them), the outcome of
\* rewriting auth.enc (only when there is a recovery code to remove)
IoOutcomes(d) == IF d \in present THEN BOOLEAN ELSE {TRUE}
SerialInputs(mode) == IF mode = "full" THEN Serials ELSE {""}
CodeInputs(mode) == IF mode = "deny" THEN {NoCode} ELSE PresentedCodes
StoreOutcomes == IF recovery_codes # <<>> THEN BOOLEAN ELSE {TRUE}

\* ------------------------------------------------------------ specification
Next ==
    \/ Tick
    \/ \E d \in Devices, a \in UdevActions : on_event(d, a)
    \/ \E d \in ports, m \in Modes :
          \E s \in SerialInputs(m), c \in CodeInputs(m), io \in IoOutcomes(d),
             store_ok \in StoreOutcomes :
             AuthorizeDevice(d, s, c, m, io, store_ok)
    \/ \E d \in ports : \E io \in IoOutcomes(d) : DenyDevice(d, io)
    \/ \E src \in sources : \E io \in IoOutcomes(src.device_id) :
          handle_authorization_timeout(src, io)
    \/ \E value \in BOOLEAN, save_ok \in BOOLEAN : SetEnabled(value, save_ok)
    \/ \E serial \in Serials : RemoveFromWhitelist(serial)

Spec == Init /\ [][Next]_vars

TypeOK ==
    /\ now \in StartTime..MaxTime
    /\ present \subseteq Devices
    /\ DOMAIN pending_authorizations \subseteq Devices
    /\ DOMAIN timeout_timers \subseteq Devices


\* ------------------------------------------------- verifier specification
\* The credential verifier on its own: the daemon has loaded auth.enc, callers
\* present codes to TOTPAuthenticator.verify_code and to
\* SecureUSBDaemon._verify_authentication, the clock advances, the daemon is
\* restarted.

\* the codes presented to TOTPAuthenticator.verify_code: the codes of two
\* adjacent time steps, the first of them typed with separators, one that is
\* too short
SeparatedCode == <<"0", "0", "0", " ", "0", "0", "-", "1">>
ShortCode == <<"1", "2">>
AuthenticatorCodes == {TotpAt(1), TotpAt(2), SeparatedCode, ShortCode}

\* the codes presented to the daemon: nothing, a TOTP code, a wrong one, one
\* that is too short, the first recovery code
DaemonCodes == {NoCode, TotpAt(1), BadCode, ShortCode, Rec1}

\* the recovery-code hashes the setup wizard has saved, when it made any
SavedHashes == <<hash_code(Rec1), hash_code(Rec2)>>
\* callers use the default window
DefaultWindow == 1
VerifierWindows == {DefaultWindow}
HalfStep == TOTP_TIME_WINDOW_SECONDS \div 2

\* what a verification call did: the code it was given and its answer
VerifyEffects(op, code, ok) ==
    [op |-> op, device_id |-> "", mode |-> "",
     result |-> IF ok THEN "True" ELSE "False", trace |-> <<>>,
     was_pending |-> FALSE, was_settled |-> FALSE, code |-> code]

VerifierFrame ==
    UNCHANGED <<monitor_pc, portVars, ports, present, authorized, authorized_default, seen_devices,
                enabled, timeout_seconds, whitelist, pending_authorizations,
                timeout_timers, sources, next_source_id, pending_requests,
                instance>>

\* SecureUSBDaemon.__init__ / _load_authentication, auth.enc being readable
load_authentication ==
    /\ totp_auth' = TRUE
    /\ recovery_codes' = stored_codes
    /\ last_used_code' = NoCode
    /\ last_used_time' = 0

VerifierInit ==
    /\ InitDaemon
    /\ enabled
    /\ timeout_seconds = DefaultTimeout
    /\ ports = {}
    /\ totp_auth
    /\ stored_codes \in {SavedHashes, <<>>}
    /\ recovery_codes = stored_codes

\* the clock advances by half a TOTP step
Wait ==
    /\ now + HalfStep <= MaxTime
    /\ now' = now + HalfStep
    /\ UNCHANGED <<totp_auth, credVars, last>>
    /\ VerifierFrame

\* a call of TOTPAuthenticator.verify_code(code, window)
verify_code(code, window) ==
    LET t == totp_verify_code(code, window, now, last_used_code, last_used_time)
        v == [ok |-> t.ok, code |-> t.code, time |-> t.time,
              recovery |-> recovery_codes, stored |-> stored_codes]
    IN  /\ totp_auth
        /\ last_used_code' = t.code
        /\ last_used_time' = t.time
        /\ accepted' = Accepted(code, v)
        /\ last' = VerifyEffects("verify_code", code, t.ok)
        /\ UNCHANGED <<now, totp_auth, recovery_codes, stored_codes>>
        /\ VerifierFrame

\* a call of SecureUSBDaemon._verify_authentication(code)
VerifyAuthentication(code, store_ok) ==
    LET v == verify_authentication(code, store_ok)
    IN  /\ last_used_code' = v.code
        /\ last_used_time' = v.time
        /\ recovery_codes' = v.recovery
        /\ stored_codes' = v.stored
        /\ accepted' = Accepted(code, v)
        /\ last' = VerifyEffects("verify_authentication", code, v.ok)
        /\ UNCHANGED <<now, totp_auth>>
        /\ VerifierFrame

\* the daemon is stopped and a new instance started
Restart ==
    /\ load_authentication
    /\ last' = VerifyEffects("restart", NoCode, TRUE)
    /\ UNCHANGED <<now, stored_codes, accepted>>
    /\ VerifierFrame

VerifierNext ==
    \/ Wait
    \/ \E code \in AuthenticatorCodes, window \in VerifierWindows :
          verify_code(code, window)
    \/ \E code \in DaemonCodes, store_ok \in StoreOutcomes :
          VerifyAuthentication(code, store_ok)
    \/ Restart

VerifierSpec == VerifierInit /\ [][VerifierNext]_vars


\* --------------------------------------------- separators specification
\* The credential verifier given codes as users type them: in groups that a
\* space or a dash separates.

\* the first recovery code typed with a space in the place of its dash
SpacedRec1 == <<"a", "b", " ", "c", "2">>
\* the codes presented: a TOTP code typed with separators, the first
\* recovery code as it was issued and typed with a space
TypedInputs == {SeparatedCode, Rec1, SpacedRec1}

SeparatorsNext ==
    \/ Wait
    \/ \E code \in TypedInputs, store_ok \in StoreOutcomes :
          VerifyAuthentication(code, store_ok)

SeparatorsSpec == VerifierInit /\ [][SeparatorsNext]_vars


\* --------------------------------------------------- thread specification
\* The daemon with its two threads. USBMonitor.start(threaded=True) runs
\* _on_event, and with it _handle_device_connected and
\* _handle_device_disconnected, in the pyudev observer thread; the D-Bus
\* methods and the timeout callbacks run in the GLib main loop of the main
\* thread. No lock is taken and nothing is handed over to the main loop, so
\* the main thread can run a handler wherever the monitor thread gives up the
\* interpreter inside one of its own: at the writes of the audit row and of
\* the sysfs file, at the emission of a signal.

ThreadFrame ==
    UNCHANGED <<portVars, ports, now, authorized_default, cfgVars, credVars, whitelist>>

\* _on_event('add') and _handle_device_connected up to block_device or,
\* without protection, to its return
connect_begin(d, io) ==
    LET row == Row("connected", d, NoDetails)
        sysfs == [authorized EXCEPT ![d] = authorized_default]
    IN  /\ monitor_pc = Idle
        /\ d \in ports /\ d \notin present
        /\ <<d, "add">> \notin seen_devices
        /\ present' = present \cup {d}
        /\ seen_devices' = seen_devices \cup {<<d, "add">>}
        /\ IF allow_on_connect(d)
           THEN /\ authorized' = [sysfs EXCEPT ![d] = IF io THEN "1" ELSE @]
                /\ last' = Effects("connect", d, "", "",
                                   <<row, Call("allow_device", d, io)>>)
                /\ instance' = [instance EXCEPT ![d] = "none"]
                /\ UNCHANGED monitor_pc
           ELSE /\ next_source_id <= MaxTimers
                /\ now + connect_timeout <= MaxTime
                /\ authorized' = [sysfs EXCEPT ![d] = IF io THEN "0" ELSE @]
                /\ last' = Effects("connect", d, "", "",
                                   <<row, Call("block_device", d, io)>>)
                /\ monitor_pc' = [pc |-> "inserting", device_id |-> d]
                /\ UNCHANGED instance
        /\ UNCHANGED <<pending_authorizations, timeout_timers, sources,
                       next_source_id, pending_requests>>
        /\ ThreadFrame

\* _handle_device_connected: the pending entry and the DeviceConnected signal
connect_insert ==
    LET d == monitor_pc.device_id
    IN  /\ monitor_pc.pc = "inserting"
        /\ pending_authorizations' =
               SetKey(pending_authorizations, d, to_dict(d))
        /\ pending_requests' = pending_requests \cup {d}
        /\ instance' = [instance EXCEPT ![d] = "open"]
        /\ last' = Effects("connect", d, "", "",
                           <<PendingInsert(d),
                             Signal("DeviceConnected", d, "", FALSE)>>)
        /\ monitor_pc' = [pc |-> "arming", device_id |-> d]
        /\ UNCHANGED <<present, authorized, seen_devices, timeout_timers,
                       sources, next_source_id>>
        /\ ThreadFrame

\* _handle_device_connected: the auto-deny timer and its handle
connect_arm ==
    LET d == monitor_pc.device_id
    IN  /\ monitor_pc.pc = "arming"
        /\ sources' = timeout_add_seconds(sources, next_source_id, d,
                                          connect_timeout)
        /\ next_source_id' = next_source_id + 1
        /\ timeout_timers' = SetKey(timeout_timers, d, next_source_id)
        /\ last' = Effects("connect", d, "", "",
                           <<TimeoutAdd(d, next_source_id, connect_timeout)>>)
        /\ monitor_pc' = Idle
        /\ UNCHANGED <<present, authorized, seen_devices,
                       pending_authorizations, pending_requests, instance>>
        /\ ThreadFrame

\* _on_event('remove') and _handle_device_disconnected up to the removal of
\* the pending entry
disconnect_begin(d) ==
    /\ monitor_pc = Idle
    /\ d \in ports /\ d \in present
    /\ present' = present \ {d}
    /\ seen_devices' = seen_devices \ {<<d, "add">>}
    /\ authorized' = [authorized EXCEPT ![d] = "0"]
    /\ pending_authorizations' = DelKey(pending_authorizations, d)
    /\ instance' = IF d \in DOMAIN pending_authorizations THEN Settle(d)
                   ELSE instance
    /\ last' = Effects("disconnect", d, "", "",
                       <<Row("disconnected", d, NoDetails)>>
                       \o Deleted(pending_authorizations, d))
    /\ monitor_pc' = [pc |-> "cancelling", device_id |-> d]
    /\ UNCHANGED <<timeout_timers, sources, next_source_id, pending_requests>>
    /\ ThreadFrame

\* _handle_device_disconnected: the timer and the DeviceDisconnected signal
disconnect_cancel ==
    LET d == monitor_pc.device_id
        timed == d \in DOMAIN timeout_timers
    IN  /\ monitor_pc.pc = "cancelling"
        /\ sources' = disconnect_sources(d)
        /\ timeout_timers' = DelKey(timeout_timers, d)
        /\ pending_requests' = Forget(pending_requests, d)
        /\ last' = Effects("disconnect", d, "", "",
                       (IF timed THEN <<SourceRemove(d, timeout_timers[d])>>
                        ELSE <<>>)
                       \o <<Signal("DeviceDisconnected", d, "", FALSE)>>)
        /\ monitor_pc' = Idle
        /\ UNCHANGED <<present, authorized, seen_devices,
                       pending_authorizations, next_source_id, instance>>
        /\ ThreadFrame

\* the steps of the monitor thread
MonitorThread ==
    \/ \E d \in ports : \E io \in BOOLEAN : connect_begin(d, io)
    \/ connect_insert
    \/ connect_arm
    \/ \E d \in ports : disconnect_begin(d)
    \/ disconnect_cancel

\* the handlers the main loop dispatches
MainThread ==
    \/ \E d \in ports, m \in Modes :
          \E s \in SerialInputs(m), c \in CodeInputs(m), io \in IoOutcomes(d),
             store_ok \in StoreOutcomes :
             AuthorizeDevice(d, s, c, m, io, store_ok)
    \/ \E d \in ports : \E io \in IoOutcomes(d) : DenyDevice(d, io)
    \/ \E src \in sources : \E io \in IoOutcomes(src.device_id) :
          handle_authorization_timeout(src, io)

ThreadNext == Tick \/ MonitorThread \/ MainThread

ThreadSpec == Init /\ [][ThreadNext]_vars


\* ----------------------------------------------------- port specification
\* The daemon with protection on: the device comes and goes, decisions arrive
\* for any device id, and the authorization port is called with any device id.

\* what a call of the port did: its answer, whether the write to the
\* authorized file went through, and its rank among the consecutive calls of
\* the same function for the same device
PortEffects(op, d, result, io) ==
    [op |-> op, device_id |-> d, mode |-> "", result |-> result,
     trace |-> <<>>, was_pending |-> d \in DOMAIN pending_authorizations,
     was_settled |-> FALSE, io |-> io,
     nth |-> IF last.op = op /\ last.device_id = d
             THEN (IF last.nth < MaxRepeat THEN last.nth + 1 ELSE MaxRepeat)
             ELSE 1]

\* the answer of a port call
PortResult(d, ok) ==
    IF authorize_device_raises(d) THEN "ValueError"
    ELSE IF ok THEN "True" ELSE "False"

PortFrame ==
    UNCHANGED <<monitor_pc, portVars, ports, now, present, authorized_default,
                seen_devices, cfgVars, credVars, whitelist,
                pending_authorizations, timeout_timers, sources,
                next_source_id, pending_requests, instance>>

\* a block_device that refuses a device that is blocked already
block_device_refuses_blocked(d, io) ==
    LET ok == authorize_device(d, io) /\ authorized[d] # "0"
    IN  /\ authorized' = IF ok THEN Written(authorized, d, "0", io)
                         ELSE authorized
        /\ last' = PortEffects("block_device", d, PortResult(d, ok), io)
        /\ PortFrame

\* USBAuthorization.block_device(d)
block_device(d, io) ==
    /\ authorized' = IF authorize_device_raises(d) THEN authorized
                     ELSE Written(authorized, d, "0", io)
    /\ last' = PortEffects("block_device", d,
                           PortResult(d, authorize_device(d, io)), io)
    /\ PortFrame

\* USBAuthorization.allow_device(d)
allow_device(d, io) ==
    /\ authorized' = IF authorize_device_raises(d) THEN authorized
                     ELSE Written(authorized, d, "1", io)
    /\ last' = PortEffects("allow_device", d,
                           PortResult(d, authorize_device(d, io)), io)
    /\ PortFrame

\* USBAuthorization.set_power_only_mode(d)
SetPowerOnlyMode(d, io) ==
    /\ authorized' = IF authorize_device_raises(d) THEN authorized
                     ELSE Written(authorized, d, "0", io)
    /\ last' = PortEffects("set_power_only_mode", d,
                           PortResult(d, set_power_only_mode(d, io)), io)
    /\ PortFrame

PortInit ==
    /\ InitDaemon
    /\ enabled /\ totp_auth
    /\ timeout_seconds = DefaultTimeout
    /\ ports = {"1-1"}
    /\ recovery_codes = <<>>
    /\ stored_codes = <<>>

PortNext ==
    \/ \E d \in ports, a \in UdevActions : on_event(d, a)
    \/ \E d \in RequestIds : \E io \in IoOutcomes(d) : block_device(d, io)
    \/ \E d \in RequestIds : \E io \in IoOutcomes(d) : allow_device(d, io)
    \/ \E d \in RequestIds : \E io \in IoOutcomes(d) : SetPowerOnlyMode(d, io)
    \/ \E d \in RequestIds, m \in Modes :
          \E s \in SerialInputs(m), c \in CodeInputs(m), io \in IoOutcomes(d),
             store_ok \in StoreOutcomes :
             AuthorizeDevice(d, s, c, m, io, store_ok)
    \/ \E d \in RequestIds : \E io \in IoOutcomes(d) : DenyDevice(d, io)

PortSpec == PortInit /\ [][PortNext]_vars


\* ------------------------------------------------------ hub specification
\* The daemon with both USB ports in use and protection on: the devices come
\* and go on their own, are denied by the user or by the timeout.
HubInit ==
    /\ InitDaemon
    /\ enabled /\ totp_auth
    /\ timeout_seconds = DefaultTimeout
    /\ ports = Devices
    /\ recovery_codes = <<>>
    /\ stored_codes = <<>>

HubNext ==
    \/ Tick
    \/ \E d \in ports, a \in UdevActions : on_event(d, a)
    \/ \E d \in ports : \E io \in IoOutcomes(d) : DenyDevice(d, io)
    \/ \E src \in sources : \E io \in IoOutcomes(src.device_id) :
          handle_authorization_timeout(src, io)

HubSpec == HubInit /\ [][HubNext]_vars


\* ------------------------------------------------- recovery specification
\* The daemon with protection on and two unused recovery codes in auth.enc:
\* a device comes and goes and the client decides with recovery codes.

\* the codes the client sends: the two recovery codes and a wrong code
RecoveryInputs == {Rec1, Rec2, BadCode}

RecoveryInit ==
    /\ InitDaemon
    /\ enabled /\ totp_auth
    /\ timeout_seconds = DefaultTimeout
    /\ ports = {"1-1"}
    /\ stored_codes = SavedHashes
    /\ recovery_codes = stored_codes

RecoveryNext ==
    \/ \E d \in ports, a \in UdevActions : on_event(d, a)
    \/ \E d \in ports, m \in Modes \ {"deny"} :
          \E s \in SerialInputs(m), c \in RecoveryInputs, io \in IoOutcomes(d),
             store_ok \in StoreOutcomes :
             AuthorizeDevice(d, s, c, m, io, store_ok)
    \/ \E d \in ports : \E io \in IoOutcomes(d) : DenyDevice(d, io)

RecoverySpec == RecoveryInit /\ [][RecoveryNext]_vars


\* --------------------------------------------------- config specification
\* The configuration on its own: callers set the timeout and switch the
\* protection on and off.

\* the values callers pass to set_timeout
TimeoutInputs == {0 - 5, 0, 5, 9, 10, 11, 45, 299, 300, 301, 500}

\* the built-in min and max of two integers
Min2(a, b) == IF a < b THEN a ELSE b
Max2(a, b) == IF a > b THEN a ELSE b

\* what a call of Config.set_timeout did: the value it was given and the
\* answer of Config.set
ConfigEffects(op, seconds, save_ok) ==
    [op |-> op, device_id |-> "", mode |-> "",
     result |-> IF save_ok THEN "True" ELSE "False", trace |-> <<>>,
     was_pending |-> FALSE, was_settled |-> FALSE, seconds |-> seconds]

\* a set_timeout that stores what it is given
set_timeout_as_given(seconds, save_ok) ==
    /\ timeout_seconds' = seconds
    /\ last' = ConfigEffects("set_timeout", seconds, save_ok)
    /\ UNCHANGED <<monitor_pc, portVars, ports, now, present, authorized,
                   authorized_default, seen_devices, enabled, totp_auth,
                   credVars, whitelist, pending_authorizations,
                   timeout_timers, sources, next_source_id, pending_requests,
                   instance>>

\* Config.set_timeout(seconds); save_ok is FALSE when writing config.json
\* fails, which leaves the new value in memory
set_timeout(seconds, save_ok) ==
    /\ timeout_seconds' = Max2(MinTimeout, Min2(MaxTimeout, seconds))
    /\ last' = ConfigEffects("set_timeout", seconds, save_ok)
    /\ UNCHANGED <<monitor_pc, portVars, ports, now, present, authorized,
                   authorized_default, seen_devices, enabled, totp_auth,
                   credVars, whitelist, pending_authorizations,
                   timeout_timers, sources, next_source_id, pending_requests,
                   instance>>

\* Config.get_timeout()
get_timeout == timeout_seconds

ConfigInit ==
    /\ InitDaemon
    /\ ports = {}
    /\ recovery_codes = <<>>
    /\ stored_codes = <<>>

ConfigNext ==
    \/ \E seconds \in TimeoutInputs, save_ok \in BOOLEAN :
          set_timeout(seconds, save_ok)
    \/ \E value \in BOOLEAN, save_ok \in BOOLEAN : SetEnabled(value, save_ok)

ConfigSpec == ConfigInit /\ [][ConfigNext]_vars


\* ----------------------------------------------------- hash specification
\* The recovery-code manager on its own: a code is hashed and the hash kept,
\* as the setup does, and codes as a user types them are verified against it.

\* the characters of the typed codes: a letter in both cases, another letter,
\* the separator
CodeChars == {"a", "A", "b", "-"}
TypedCodes == UNION {[1..n -> CodeChars] : n \in 0..MaxCodeLen}

\* what a call of the recovery-code manager did: the code it was given and
\* its answer
HashEffects(op, code, result) ==
    [op |-> op, device_id |-> "", mode |-> "", result |-> result,
     trace |-> <<>>, was_pending |-> FALSE, was_settled |-> FALSE,
     code |-> code]

HashFrame ==
    UNCHANGED <<monitor_pc, portVars, ports, now, present, authorized,
                authorized_default, seen_devices, cfgVars, last_used_code,
                last_used_time, recovery_codes, accepted, whitelist,
                pending_authorizations, timeout_timers, sources,
                next_source_id, pending_requests, instance>>

\* RecoveryCodeManager.hash_code(code), the hash being stored
HashCode(code) ==
    /\ stored_codes' = <<hash_code(code)>>
    /\ last' = HashEffects("hash_code", code, hash_code(code))
    /\ HashFrame

\* RecoveryCodeManager.verify_code(code, hashed_code) with the stored hash
VerifyCode(code) ==
    /\ stored_codes # <<>>
    /\ last' = HashEffects("recovery_verify_code", code,
                           IF recovery_verify_code(code, stored_codes[1])
                           THEN "True" ELSE "False")
    /\ UNCHANGED stored_codes
    /\ HashFrame

HashInit ==
    /\ InitDaemon
    /\ enabled /\ totp_auth
    /\ timeout_seconds = DefaultTimeout
    /\ ports = {}
    /\ recovery_codes = <<>>
    /\ stored_codes = <<>>

HashNext ==
    \/ \E code \in TypedCodes : HashCode(code)
    \/ \E code \in TypedCodes : VerifyCode(code)

HashSpec == HashInit /\ [][HashNext]_vars


\* ----------------------------------------------- desktop ports: the monitor
\* The macOS and the Windows port poll the system for its USB devices in a
\* thread of their own (MacUSBMonitor._run, WindowsUSBMonitor._run) and queue
\* add and remove events, which a QTimer of the Qt main thread drains
\* (_drain_events) and dispatches to the handlers of the app.

\* the events a run may queue in all
MaxEvents == 3

\* the events put on the queue so far
PutCount == observed.count + Len(drained) + Len(events)

\* _enumerate_devices: the ids the enumeration command lists; the empty
\* dictionary when the command is missing, fails or prints no JSON
enumerate_devices(command_ok) == IF command_ok THEN attached ELSE {}

\* the orders in which a loop over a dictionary with the keys S visits them
Orders(S) ==
    {s \in [1..Cardinality(S) -> S] :
        \A i, j \in 1..Cardinality(S) : i # j => s[i] # s[j]}

QueueEvent(action, d, n) == [action |-> action, device_id |-> d, n |-> n]

DesktopFrame ==
    UNCHANGED <<ports, present, authorized, authorized_default, seen_devices,
                pending_authorizations, timeout_timers, sources,
                next_source_id, pending_requests, monitor_pc, now>>

\* a device is plugged into a port
Plug(d) ==
    /\ d \in ports /\ d \notin attached
    /\ attached' = attached \cup {d}
    /\ UNCHANGED <<known_devices, events, poll, drained, observed, pending,
                   dialogs, cfgVars, credVars, whitelist, last, instance>>
    /\ DesktopFrame

\* a device is unplugged
Unplug(d) ==
    /\ d \in attached
    /\ attached' = attached \ {d}
    /\ observed' = [observed EXCEPT !.announced = @ \ {d}]
    /\ UNCHANGED <<known_devices, events, poll, drained, pending,
                   dialogs, cfgVars, credVars, whitelist, last, instance>>
    /\ DesktopFrame

\* _run: the enumeration of one pass of the loop; the pass will queue an add
\* event for every id that is new and then a remove event for every known id
\* that is gone
run_enumerate(command_ok) ==
    LET current == enumerate_devices(command_ok)
        added == current \ known_devices
        removed == known_devices \ current
    IN  /\ poll.pc = "sleeping"
        /\ PutCount + Cardinality(added) + Cardinality(removed) <= MaxEvents
        /\ \E a \in Orders(added), r \in Orders(removed) :
              poll' = [pc |-> "putting", current |-> current,
                       todo |-> [i \in DOMAIN a |-> QueueEvent("add", a[i], 0)]
                                \o [i \in DOMAIN r |->
                                        QueueEvent("remove", r[i], 0)]]
        /\ observed' = [observed EXCEPT !.announced = @ \cup added]
        /\ UNCHANGED <<attached, known_devices, events, drained, pending,
                       dialogs, cfgVars, credVars, whitelist, last, instance>>
        /\ DesktopFrame

\* _run: self._events.put of the next event of the pass
run_put ==
    /\ poll.pc = "putting" /\ poll.todo # <<>>
    /\ events' = Append(events, [Head(poll.todo) EXCEPT !.n = PutCount + 1])
    /\ poll' = [poll EXCEPT !.todo = Tail(@)]
    /\ UNCHANGED <<attached, known_devices, drained, observed, pending,
                   dialogs, cfgVars, credVars, whitelist, last, instance>>
    /\ DesktopFrame

\* _run: self._known_devices = current, and the sleep
run_sleep ==
    /\ poll.pc = "putting" /\ poll.todo = <<>>
    /\ known_devices' = poll.current
    /\ poll' = Sleeping
    /\ UNCHANGED <<attached, events, drained, observed, pending,
                   dialogs, cfgVars, credVars, whitelist, last, instance>>
    /\ DesktopFrame

\* a get_events that hands the queued events over newest first
get_events_newest_first ==
    [i \in 1..Len(events) |-> events[Len(events) + 1 - i]]

\* MacUSBMonitor.get_events: the queue is emptied from its head
get_events == events

\* _drain_events, called by the event_poller timer while the main thread is
\* idle: it takes the queued events
drain_events ==
    /\ drained = <<>> /\ events # <<>>
    /\ drained' = get_events
    /\ events' = <<>>
    /\ UNCHANGED <<attached, known_devices, poll, observed, pending,
                   dialogs, cfgVars, credVars, whitelist, last, instance>>
    /\ DesktopFrame

\* ---------------------------------------------------- desktop ports: the app
\* the dialogs a run may open in all
MaxDialogs == 1

\* the codes a user can type into the dialog, which takes six digits
DialogCodes == {TotpAt(1), BadCode}

DetailsAppTimeout == "Authorization timeout"
DetailsAppDenied == "User denied"
DetailsAppAuthFailed == "Invalid TOTP or recovery code"

\* what a handler of the app did
AppEffects(op, d, mode, result, trace) ==
    [op |-> op, device_id |-> d, mode |-> mode, result |-> result,
     trace |-> trace,
     was_pending |-> d \in DOMAIN pending,
     was_settled |-> instance[d] = "settled"]

\* AuthorizationDialog.__init__: the countdown timer is started
NewDialog(d) ==
    [device_id |-> d, remaining_seconds |-> timeout_seconds, active |-> TRUE,
     visible |-> TRUE, alive |-> TRUE]

\* QDialog.accept and QDialog.reject of the given dialogs: they are hidden;
\* nothing stops their countdown timers
Hidden(dlgs, S) ==
    [i \in DOMAIN dlgs |->
        IF i \in S THEN [dlgs[i] EXCEPT !.visible = FALSE] ELSE dlgs[i]]

\* QDialog.close of the dialogs S: closeEvent stops the countdown timer
Closed(dlgs, S) ==
    [i \in DOMAIN dlgs |->
        IF i \in S THEN [dlgs[i] EXCEPT !.visible = FALSE, !.active = FALSE]
        ELSE dlgs[i]]

\* the dialog of the pending entry of d, when there is one
DialogOf(d) == IF d \in DOMAIN pending THEN {pending[d].dialog} ELSE {}

\* _handle_device_connected of the app
app_handle_device_connected(d) ==
    LET row == Row("connected", d, NoDetails)
    IN  IF ~enabled \/ ~totp_auth
        THEN /\ last' = AppEffects("app_connect", d, "", "", <<row>>)
             /\ UNCHANGED <<pending, dialogs, instance>>
        ELSE /\ Len(dialogs) < MaxDialogs
             /\ dialogs' = Append(dialogs, NewDialog(d))
             /\ pending' = SetKey(pending, d, [dialog |-> Len(dialogs) + 1,
                                               timer |-> TRUE])
             /\ instance' = [instance EXCEPT ![d] = "open"]
             /\ last' = AppEffects("app_connect", d, "", "",
                                   <<row, Call("block_device", d, TRUE)>>)

\* _handle_device_removed of the app
app_handle_device_removed(d) ==
    /\ pending' = DelKey(pending, d)
    /\ dialogs' = Closed(dialogs, DialogOf(d))
    /\ instance' = [instance EXCEPT ![d] = "none"]
    /\ last' = AppEffects("app_remove", d, "", "",
                          <<Row("disconnected", d, NoDetails)>>)

\* _drain_events: the next event of the drained list is dispatched
drain_dispatch ==
    LET e == Head(drained)
    IN  /\ drained # <<>>
        /\ drained' = Tail(drained)
        /\ observed' = [observed EXCEPT !.count = @ + 1,
                                        !.seen[e.device_id] = e.action]
        /\ IF e.action = "add" THEN app_handle_device_connected(e.device_id)
           ELSE app_handle_device_removed(e.device_id)
        /\ UNCHANGED <<attached, known_devices, events, poll, cfgVars,
                       credVars, whitelist>>
        /\ DesktopFrame

\* _close_dialog(d, accept) together with the accept or reject that the
\* calling dialog, if any, makes of itself afterwards; dlgs are the dialogs
\* as the caller has left them
close_dialog(d, caller, dlgs) ==
    /\ pending' = DelKey(pending, d)
    /\ dialogs' = Hidden(dlgs, DialogOf(d) \cup caller)

\* _deny_device(device, auto) of the app, called by the dialogs in caller
app_deny_device(op, d, auto, caller, dlgs) ==
    /\ close_dialog(d, caller, dlgs)
    /\ instance' = Settle(d)
    /\ last' = AppEffects(op, d, "deny", IF auto THEN "timeout" ELSE "denied",
                          <<Call("block_device", d, TRUE),
                            Row("denied", d, IF auto THEN DetailsAppTimeout
                                             ELSE DetailsAppDenied)>>)

\* _handle_timeout(d), the callback of the single-shot timer of the pending
\* entry of d, which is due when the countdown of its dialog is in its last
\* second
app_handle_timeout(d) ==
    /\ drained = <<>>
    /\ d \in DOMAIN pending /\ pending[d].timer
    /\ dialogs[pending[d].dialog].remaining_seconds <= 1
    /\ app_deny_device("app_timeout", d, TRUE, {}, dialogs)
    /\ UNCHANGED <<attached, known_devices, events, poll, drained, observed,
                   cfgVars, credVars, whitelist>>
    /\ DesktopFrame

\* AuthorizationDialog._tick of dialog i, the callback of its countdown timer
tick(i) ==
    LET dlg == dialogs[i]
        d == dlg.device_id
        counted == [dialogs EXCEPT ![i].remaining_seconds = @ - 1]
    IN  /\ drained = <<>>
        /\ i \in DOMAIN dialogs /\ dlg.alive /\ dlg.active
        /\ IF dlg.remaining_seconds - 1 <= 0
           THEN app_deny_device("tick", d, TRUE, {i},
                                [counted EXCEPT ![i].active = FALSE])
           ELSE /\ dialogs' = counted
                /\ last' = AppEffects("tick", d, "", "", <<>>)
                /\ UNCHANGED <<pending, instance>>
        /\ UNCHANGED <<attached, known_devices, events, poll, drained,
                       observed, cfgVars, credVars, whitelist>>
        /\ DesktopFrame

\* AuthorizationDialog._handle_deny(False): the user presses Deny in dialog i
handle_deny(i) ==
    /\ drained = <<>>
    /\ i \in DOMAIN dialogs /\ dialogs[i].alive /\ dialogs[i].visible
    /\ app_deny_device("deny", dialogs[i].device_id, FALSE, {i}, dialogs)
    /\ UNCHANGED <<attached, known_devices, events, poll, drained, observed,
                   cfgVars, credVars, whitelist>>
    /\ DesktopFrame

\* AuthorizationDialog._handle_submit(mode) of dialog i with the code typed,
\* and the _authorize_device or _power_only of the app it calls; io is the
\* answer of the device blocker
handle_submit(i, mode, code, remember, io) ==
    LET d == dialogs[i].device_id
        v == verify_authentication(code, TRUE)
        port == IF mode = "full" THEN "allow_device" ELSE "power_only"
        failed == IF mode = "full"
                  THEN <<Row("auth_failed", d, DetailsAppAuthFailed)>>
                  ELSE <<>>
    IN  /\ drained = <<>>
        /\ i \in DOMAIN dialogs /\ dialogs[i].alive /\ dialogs[i].visible
        /\ last_used_code' = v.code
        /\ last_used_time' = v.time
        /\ recovery_codes' = v.recovery
        /\ stored_codes' = v.stored
        /\ accepted' = Accepted(code, v)
        /\ IF ~v.ok
           THEN /\ last' = AppEffects("submit", d, mode, "auth_failed", failed)
                /\ UNCHANGED <<pending, dialogs, instance, whitelist>>
           ELSE IF ~io
           THEN /\ last' = AppEffects("submit", d, mode, "error",
                                      <<Call(port, d, FALSE)>>)
                /\ UNCHANGED <<pending, dialogs, instance, whitelist>>
           ELSE /\ close_dialog(d, {i}, dialogs)
                /\ instance' = Settle(d)
                /\ whitelist' = IF mode = "full" /\ remember /\ SerialOf[d] # ""
                                THEN whitelist \cup {SerialOf[d]}
                                ELSE whitelist
                /\ last' = AppEffects("submit", d, mode, "success",
                              <<Call(port, d, TRUE),
                                Row(IF mode = "full" THEN "authorized"
                                    ELSE "authorized_power_only", d,
                                    NoDetails)>>)
        /\ UNCHANGED <<attached, known_devices, events, poll, drained,
                       observed, cfgVars>>
        /\ DesktopFrame

\* the Python object of dialog i, which the app no longer refers to, is
\* collected: its countdown timer goes with it
dialog_collected(i) ==
    /\ drained = <<>>
    /\ i \in DOMAIN dialogs /\ dialogs[i].alive
    /\ \A d \in DOMAIN pending : pending[d].dialog # i
    /\ dialogs' = [dialogs EXCEPT ![i].alive = FALSE, ![i].active = FALSE,
                                  ![i].visible = FALSE]
    /\ UNCHANGED <<attached, known_devices, events, poll, drained, observed,
                   pending, cfgVars, credVars, whitelist, last, instance>>
    /\ DesktopFrame

\* ------------------------------------------------ polling specification
\* A desktop port with the protection switched off: devices are plugged and
\* unplugged, the poller thread makes its passes, the main thread drains the
\* queue.
PollInit ==
    /\ InitDaemon
    /\ ~enabled /\ totp_auth
    /\ timeout_seconds = DefaultTimeout
    /\ ports = Devices
    /\ recovery_codes = <<>>
    /\ stored_codes = <<>>

PollNext ==
    \/ \E d \in ports : Plug(d)
    \/ \E d \in ports : Unplug(d)
    \/ \E command_ok \in BOOLEAN : run_enumerate(command_ok)
    \/ run_put
    \/ run_sleep
    \/ drain_events
    \/ drain_dispatch

PollSpec == PollInit /\ [][PollNext]_vars

\* ----------------------------------------------------- app specification
\* A desktop port with the protection on and one USB port in use: the user
\* answers the dialogs, the countdowns and the timers of the app run.
AppInit ==
    /\ InitDaemon
    /\ enabled /\ totp_auth
    /\ timeout_seconds = MinTimeout
    /\ ports = {"1-1"}
    /\ recovery_codes = <<>>
    /\ stored_codes = <<>>

AppNext ==
    \/ PollNext
    \/ \E d \in ports : app_handle_timeout(d)
    \/ \E i \in DOMAIN dialogs : tick(i)
    \/ \E i \in DOMAIN dialogs : handle_deny(i)
    \/ \E i \in DOMAIN dialogs, mode \in {"full", "power_only"},
          code \in DialogCodes, remember \in BOOLEAN, io \in BOOLEAN :
          handle_submit(i, mode, code, remember, io)
    \/ \E i \in DOMAIN dialogs : dialog_collected(i)

AppSpec == AppInit /\ [][AppNext]_vars


\* ------------------------------------------------------------------ claims
OutcomeRows == {"authorized", "authorized_power_only", "denied"}
DecisionResults == {"success", "auth_failed", "error"}

\* an effect that applies or reports an outcome: a port call, an outcome
\* audit row, an AuthorizationResult notification
IsOutcomeEffect(e) ==
    \/ e.kind = "call"
    \/ e.kind = "row" /\ e.name \in OutcomeRows
    \/ e.kind = "signal" /\ e.name = "AuthorizationResult"

OutcomeEffects(t) == SelectSeq(t, IsOutcomeEffect)

\* C1: once a connection instance of a device has had a terminal outcome
\* (authorized, power-only, denied, timed out, cleaned up on disconnect), no
\* later decision, timeout or disconnect for that device makes a port call,
\* writes an outcome audit row or emits an AuthorizationResult.
C1_AtMostOneTerminalOutcome ==
    (last.op \in {"decision", "timeout", "disconnect"} /\ last.was_settled)
        => OutcomeEffects(last.trace) = <<>>

\* C2: a decision for a device_id without a pending entry is rejected with a
\* result of its own and has no effect at all: nothing verified, no port call,
\* no audit row, no notification.
C2_StaleDecisionRejected ==
    (last.op = "decision" /\ ~last.was_pending)
        => /\ last.result \notin DecisionResults
           /\ last.trace = <<>>


\* position of the first effect of trace t that satisfies the test, 0 if none
FirstCall(t, fn) ==
    LET hits == {i \in 1..Len(t) : t[i].kind = "call" /\ t[i].name = fn}
    IN  IF hits = {} THEN 0 ELSE CHOOSE i \in hits : \A j \in hits : i <= j

FirstKind(t, kind) ==
    LET hits == {i \in 1..Len(t) : t[i].kind = kind}
    IN  IF hits = {} THEN 0 ELSE CHOOSE i \in hits : \A j \in hits : i <= j

ProtectionOn == enabled /\ totp_auth
TimersOf(d) == {s \in sources : s.device_id = d}

\* the result the decision handler owes to the mode, the verification and
\* the port call alone
OwedResult(l) ==
    IF l.mode = "deny" THEN "success"
    ELSE IF ~Has(l.trace, Verified(l.device_id, TRUE)) THEN "auth_failed"
    ELSE IF \E i \in 1..Len(l.trace) : l.trace[i].kind = "call" /\ l.trace[i].ok
         THEN "success"
    ELSE "error"

\* C3: with protection enabled and credentials configured, allow_device is
\* called only by a full decision, after the presented code has verified;
\* a whitelisted serial number neither makes the connect handler call it nor
\* changes the result of a decision, which follows from the mode, the
\* verification and the port call alone.
C3_FullOnlyByVerifiedDecision ==
    /\ (ProtectionOn /\ FirstCall(last.trace, "allow_device") # 0)
          => /\ last.op = "decision"
             /\ last.mode = "full"
             /\ FirstKind(last.trace, "verify") # 0
             /\ FirstKind(last.trace, "verify")
                    < FirstCall(last.trace, "allow_device")
             /\ Has(last.trace, Verified(last.device_id, TRUE))
    /\ last.op = "decision" => last.result = OwedResult(last)

\* a whitelisted device has connected under protection and waits, blocked
C3_Witness ==
    /\ last.op = "connect"
    /\ ProtectionOn
    /\ SerialOf[last.device_id] \in whitelist
    /\ last.device_id \in DOMAIN pending_authorizations
    /\ FirstCall(last.trace, "block_device") # 0

\* the connect handler has just queued device d for a decision
ConnectedPending(l) == l.op = "connect" /\ FirstKind(l.trace, "pending_insert") # 0

\* what C4 says of a connect under protection
ConnectEffects(l) ==
    LET d == l.device_id
        t == l.trace
        arm == SelectSeq(t, IsTimeoutAdd)
    IN  /\ Len(Calls(t)) = 1
        /\ Calls(t)[1].name = "block_device" /\ Calls(t)[1].device_id = d
        /\ Rows(t) = <<Row("connected", d, NoDetails)>>
        /\ ~l.was_pending
        /\ d \in DOMAIN pending_authorizations
        /\ FirstCall(t, "block_device") < FirstKind(t, "pending_insert")
        /\ Len(arm) = 1
        /\ arm[1].time = timeout_seconds
        /\ Cardinality(TimersOf(d)) = 1
        /\ d \in DOMAIN timeout_timers
        /\ \A s \in TimersOf(d) :
              /\ s.id = arm[1].id /\ s.id = timeout_timers[d]
              /\ s.deadline <= now + timeout_seconds

\* C4: a connect under protection calls block_device once, writes one
\* connected row, creates the one pending entry of the device and arms one
\* timer with the configured timeout; a pending entry only ever appears in a
\* connect handler that has called block_device for the device before.
C4_ConnectBlocksThenPends ==
    /\ []((last.op = "connect" /\ ProtectionOn) => ConnectEffects(last))
    /\ [][\A d \in Devices :
            (d \notin DOMAIN pending_authorizations
             /\ d \in DOMAIN pending_authorizations')
            => /\ last'.op = "connect" /\ last'.device_id = d
               /\ FirstCall(last'.trace, "block_device") # 0
               /\ FirstCall(last'.trace, "block_device")
                      < FirstKind(last'.trace, "pending_insert")]_vars

\* a device has connected under protection with a timeout other than the
\* default one
C4_Witness ==
    /\ ConnectedPending(last)
    /\ ProtectionOn
    /\ timeout_seconds # DefaultTimeout

\* a decision handler run for a pending device in which the code verified
VerifiedDecision(l, mode) ==
    /\ l.op = "decision" /\ l.was_pending /\ l.mode = mode
    /\ Has(l.trace, Verified(l.device_id, TRUE))

\* the effects C5 lists for a full decision
FullApplied(l) ==
    LET d == l.device_id
        t == l.trace
    IN  /\ l.result = "success"
        /\ TimersOf(d) = {} /\ d \notin DOMAIN timeout_timers
        /\ Calls(t) = <<Call("allow_device", d, TRUE)>>
        /\ d \notin DOMAIN pending_authorizations
        /\ SelectSeq(Rows(t), LAMBDA e : e.name \in OutcomeRows)
               = <<Row("authorized", d, NoDetails)>>
        /\ Signals(t) = <<Signal("AuthorizationResult", d, "authorized", TRUE)>>

RefusedDecision(l) ==
    /\ l.op = "decision" /\ l.was_pending
    /\ l.mode \in {"full", "power_only"}
    /\ Has(l.trace, Verified(l.device_id, FALSE))

\* C6: for a pending device, a full or power_only decision whose code does
\* not verify returns auth_failed, writes exactly one audit row, an
\* auth_failed one, makes no port call, leaves the authorized files as they
\* were and keeps the pending entry of the device.
C6_InvalidCodeKeepsPending ==
    /\ [](RefusedDecision(last) =>
            /\ last.result = "auth_failed"
            /\ Rows(last.trace)
                   = <<Row("auth_failed", last.device_id, DetailsAuthFailed)>>
            /\ Calls(last.trace) = <<>>
            /\ Signals(last.trace) = <<>>
            /\ last.device_id \in DOMAIN pending_authorizations)
    /\ [][RefusedDecision(last') => authorized' = authorized]_vars

\* a pending device has had a refused decision and still waits, blocked
C6_Witness ==
    /\ RefusedDecision(last)
    /\ last.result = "auth_failed"
    /\ last.device_id \in DOMAIN pending_authorizations
    /\ authorized[last.device_id] = "0"

\* C7: a decision whose code does not verify leaves the timer of the pending
\* device alone: GLib.source_remove is not called and the timer is still
\* armed and referenced afterwards.
C7_InvalidCodeLeavesTimer ==
    RefusedDecision(last) =>
        /\ FirstKind(last.trace, "source_remove") = 0
        /\ last.device_id \in DOMAIN timeout_timers
        /\ TimersOf(last.device_id) # {}

\* the handlers with the scheduling of the GLib main loop: the clock advances
\* and a timeout source that is due is dispatched
FairSpec ==
    /\ Spec
    /\ WF_vars(Tick)
    /\ WF_vars(\E src \in sources : \E io \in IoOutcomes(src.device_id) :
                  handle_authorization_timeout(src, io))

\* C8: every device that enters the pending table eventually leaves it,
\* when the timers that are armed eventually fire.
C8_PendingEventuallyLeaves ==
    \A d \in Devices :
        (d \in DOMAIN pending_authorizations)
            ~> (d \notin DOMAIN pending_authorizations)

\* C9: when the deadline of a pending device elapses the timeout handler
\* calls block_device, removes the pending entry and the timer reference,
\* emits AuthorizationResult(id, "denied", false) and writes exactly one
\* denied row, whose details are those of the automatic denial.
C9_TimeoutDeniesWithOneRow ==
    (last.op = "timeout" /\ last.was_pending) =>
        LET d == last.device_id
            t == last.trace
        IN  /\ Calls(t) = <<Call("block_device", d, Calls(t)[1].ok)>>
            /\ d \notin DOMAIN pending_authorizations
            /\ d \notin DOMAIN timeout_timers
            /\ Signals(t) = <<Signal("AuthorizationResult", d, "denied", FALSE)>>
            /\ Rows(t) = <<Row("denied", d, DetailsTimeout)>>

\* C10: a timer source exists only for a device that is pending and is the
\* one the daemon holds the reference of; the disconnect of a pending device
\* removes its pending entry, calls GLib.source_remove for its timer and
\* leaves no source for it, so that the timeout handler only ever runs for a
\* device that is pending.
C10_DisconnectCancelsTimer ==
    /\ [](\A s \in sources :
            /\ s.device_id \in DOMAIN pending_authorizations
            /\ s.device_id \in DOMAIN timeout_timers
            /\ timeout_timers[s.device_id] = s.id)
    /\ [](last.op = "timeout" => last.was_pending)
    /\ [][\A d \in DOMAIN pending_authorizations :
            (last'.op = "disconnect" /\ last'.device_id = d
             /\ d \notin DOMAIN pending_authorizations')
            => /\ d \notin DOMAIN timeout_timers'
               /\ \A s \in sources' : s.device_id # d
               /\ d \in DOMAIN timeout_timers
                    => Has(last'.trace, SourceRemove(d, timeout_timers[d]))
               /\ OutcomeEffects(last'.trace) = <<>>]_vars

\* a pending device was disconnected, its timer cancelled, and the clock has
\* passed the deadline the timer had
C10_Witness ==
    /\ last.op = "disconnect" /\ last.was_pending
    /\ FirstKind(last.trace, "source_remove") # 0
    /\ timeout_seconds = MinTimeout
    /\ now = MaxTime
    /\ sources = {}

\* ------------------------------------------------ claims about the verifier
IsHashKey(k) == k # <<>> /\ Head(k) = "sha256"

\* C11: a recovery code that verification has accepted once is never
\* accepted again, neither by the same daemon instance nor by one started
\* later from the persisted store.
C11_RecoveryCodeVerifiesOnce ==
    \A k \in DOMAIN accepted : IsHashKey(k) => ~accepted[k].again

\* the code as TOTPAuthenticator.verify_code compares it
Stripped(code) == Remove(Remove(code, " "), "-")

\* the presented code is the one verify_code accepted last, less than one
\* time step ago
Replayed(code) ==
    /\ Stripped(code) = last_used_code
    /\ now - last_used_time < TOTP_TIME_WINDOW_SECONDS

\* the step is a call of op: the clock stands still and last tells of op
Called(op) == last'.op = op /\ now' = now

\* C12: a TOTP code that verify_code has just accepted is refused when it is
\* presented to the same authenticator again within 30 seconds, although
\* the TOTP check by itself accepts it; presented for the first time it is
\* accepted and remembered.
C12_SameCodeTwiceInARow ==
    [][(Called("verify_code")
        /\ TotpVerify(Stripped(last'.code), DefaultWindow, now))
       => IF Replayed(last'.code)
          THEN /\ last'.result = "False"
               /\ UNCHANGED <<last_used_code, last_used_time>>
          ELSE /\ last'.result = "True"
               /\ last_used_code' = Stripped(last'.code)
               /\ last_used_time' = now]_vars

\* verify_code has refused, some time after it accepted it, a code that the
\* TOTP check accepts
C12_Witness ==
    /\ last.op = "verify_code" /\ last.result = "False"
    /\ Replayed(last.code)
    /\ now > last_used_time
    /\ TotpVerify(Stripped(last.code), DefaultWindow, now)

\* C13: whatever the sequence of verifications, no TOTP code is accepted twice
\* less than 30 seconds apart, also when another code was accepted in between.
C13_NoCodeAcceptedTwiceInWindow ==
    \A k \in DOMAIN accepted : ~IsHashKey(k) => ~accepted[k].again

\* the first stored hash the code matches, <<>> when it matches none
FirstMatch(code) ==
    LET matches == {i \in 1..Len(recovery_codes) :
                        hash_code(code) = recovery_codes[i]}
    IN  IF matches = {} THEN <<>>
        ELSE recovery_codes[CHOOSE i \in matches : \A j \in matches : i <= j]

\* the TOTP check of _verify_authentication accepts the code
TotpAccepts(code) ==
    /\ code # NoCode /\ totp_auth
    /\ totp_verify_code(code, 1, now, last_used_code, last_used_time).ok

\* C14: a code that matches a stored recovery hash is not reported as
\* verified when the store fails to persist the removal of the hash, and
\* the daemon's list of recovery codes always equals the persisted one.
C14_StoreFailureIsNotSuccess ==
    /\ [](recovery_codes = stored_codes)
    /\ [][(/\ Called("verify_authentication")
           /\ ~TotpAccepts(last'.code)
           /\ FirstMatch(last'.code) # <<>>
           /\ InSeq(FirstMatch(last'.code), stored_codes)
           /\ stored_codes' = stored_codes)
          => last'.result = "False"]_vars

\* C15: verification tries the TOTP check first, and a code it accepts leaves
\* the recovery codes alone; otherwise the first stored hash that the code
\* matches is removed, it alone, from the daemon's list and from the store.
C15_TotpFirstThenFirstMatch ==
    [][Called("verify_authentication")
       => LET code == last'.code
          IN  IF TotpAccepts(code)
              THEN /\ last'.result = "True"
                   /\ UNCHANGED <<recovery_codes, stored_codes>>
              ELSE IF code # NoCode /\ FirstMatch(code) # <<>>
              THEN /\ last'.result = "True"
                   /\ recovery_codes'
                          = RemoveFirst(recovery_codes, FirstMatch(code))
                   /\ stored_codes'
                          = RemoveFirst(stored_codes, FirstMatch(code))
                   /\ Len(recovery_codes') = Len(recovery_codes) - 1
                   /\ Len(stored_codes') = Len(stored_codes) - 1
              ELSE last'.result = "False"]_vars

\* the code is not one TOTPAuthenticator.verify_code looks up
Malformed(code) ==
    ~IsDigit(Stripped(code)) \/ Len(Stripped(code)) # TOTP_CODE_LENGTH

C17_UnprotectedConnectAllows ==
    (last.op = "connect" /\ ~ProtectionOn) =>
        LET d == last.device_id
        IN  /\ Rows(last.trace) = <<Row("connected", d, NoDetails)>>
            /\ FirstKind(last.trace, "row") = 1
            /\ Len(Calls(last.trace)) = 1
            /\ Calls(last.trace)[1].name = "allow_device"
            /\ Calls(last.trace)[1].device_id = d
            /\ Calls(last.trace)[1].ok => authorized[d] = "1"
            /\ Signals(last.trace) = <<>>
            /\ Len(last.trace) = 2
            /\ d \notin DOMAIN pending_authorizations
            /\ d \notin DOMAIN timeout_timers
            /\ TimersOf(d) = {}
            /\ d \notin pending_requests

\* a device was let through on connect by an enabled daemon without credentials
C17_Witness ==
    /\ last.op = "connect"
    /\ enabled /\ ~totp_auth
    /\ authorized[last.device_id] = "1"
    /\ pending_authorizations = <<>>

\* C18: set_enabled changes the enabled flag and the default authorization
\* only: pending entries, timers and the authorization of the devices stay
\* as they are, and afterwards as before a pending entry leaves the table
\* only by a deny decision, a decision with a verified code, the timeout or
\* a disconnect, and a pending device is authorized only by a decision with
\* a verified code.
C18_ToggleLeavesPendingAlone ==
    /\ [][Called("set_enabled")
          => UNCHANGED <<pending_authorizations, timeout_timers, sources,
                         authorized, pending_requests, instance, whitelist,
                         credVars, timeout_seconds, totp_auth, present,
                         seen_devices>>]_vars
    /\ [][\A d \in DOMAIN pending_authorizations :
            /\ d \notin DOMAIN pending_authorizations'
                 => \/ last'.op \in {"timeout", "disconnect"}
                    \/ /\ last'.op = "decision"
                       /\ \/ last'.mode = "deny"
                          \/ Has(last'.trace, Verified(d, TRUE))
            /\ (authorized[d] = "0" /\ authorized'[d] = "1")
                 => /\ last'.op = "decision"
                    /\ Has(last'.trace, Verified(d, TRUE))]_vars

\* protection was disabled while a device waits, blocked, with its timer armed
C18_Witness ==
    /\ last.op = "set_enabled"
    /\ ~enabled
    /\ \E d \in DOMAIN pending_authorizations :
          /\ authorized[d] = "0"
          /\ TimersOf(d) # {}

C20_HandlersOneAtATime ==
    [][(monitor_pc # Idle /\ monitor_pc' = monitor_pc)
       => UNCHANGED <<pending_authorizations, timeout_timers, sources,
                      pending_requests, authorized, credVars, last>>]_vars

\* C21: cancelling the timer is synchronous with the command that causes it:
\* the timeout handler of a device never runs once a terminal decision or a
\* disconnect for the device's connection has been taken up, and never while
\* the disconnect handler of the device is under way, however the monitor
\* thread and the main loop interleave.
C21_CancellationIsSynchronous ==
    last.op = "timeout" =>
        /\ ~last.was_settled
        /\ ~(monitor_pc.pc = "cancelling"
             /\ monitor_pc.device_id = last.device_id)

\* ------------------------------------------------ claims about the decisions
\* a decision handler run with mode deny for a pending device
DenyDecision(l) == l.op = "decision" /\ l.mode = "deny" /\ l.was_pending

\* C22: a deny decision for a pending device verifies no code and leaves the
\* credentials alone; it cancels the timer, calls block_device once, writes
\* one denied row whose details are those of a user denial, not of the
\* timeout, emits AuthorizationResult(id, "denied", false), removes the
\* pending entry and returns success.
C22_DenyNeedsNoCode ==
    /\ [](DenyDecision(last) =>
            LET d == last.device_id
                t == last.trace
            IN  /\ last.result = "success"
                /\ FirstKind(t, "verify") = 0
                /\ Len(Calls(t)) = 1
                /\ Calls(t)[1].name = "block_device"
                /\ Calls(t)[1].device_id = d
                /\ Calls(t)[1].ok => authorized[d] = "0"
                /\ Rows(t) = <<Row("denied", d, DetailsUserDenied)>>
                /\ DetailsUserDenied # DetailsTimeout
                /\ Signals(t)
                      = <<Signal("AuthorizationResult", d, "denied", FALSE)>>
                /\ d \notin DOMAIN pending_authorizations
                /\ d \notin DOMAIN timeout_timers
                /\ TimersOf(d) = {})
    /\ [][(last' # last /\ DenyDecision(last'))
          => /\ UNCHANGED credVars
             /\ last'.device_id \in DOMAIN timeout_timers
                  => Has(last'.trace,
                         SourceRemove(last'.device_id,
                                      timeout_timers[last'.device_id]))]_vars

\* a pending device was denied without a code; its timer was cancelled and
\* the device is blocked
C22_Witness ==
    /\ DenyDecision(last)
    /\ last.result = "success"
    /\ FirstKind(last.trace, "source_remove") # 0
    /\ FirstKind(last.trace, "verify") = 0
    /\ authorized[last.device_id] = "0"

\* a decision handler run for a pending device in which the code verified
\* and the port call returned False
PortFailedDecision(l) ==
    /\ l.op = "decision" /\ l.was_pending
    /\ l.mode \in {"full", "power_only"}
    /\ Has(l.trace, Verified(l.device_id, TRUE))
    /\ \E i \in 1..Len(l.trace) : l.trace[i].kind = "call" /\ ~l.trace[i].ok

\* what a decision whose port call failed has not done: no port call that
\* succeeded, no outcome row, no notification
NothingGranted(l) ==
    /\ \A i \in 1..Len(l.trace) : l.trace[i].kind = "call" => ~l.trace[i].ok
    /\ \A i \in 1..Len(l.trace) :
          l.trace[i].kind = "row" => l.trace[i].name \notin OutcomeRows
    /\ Signals(l.trace) = <<>>

\* C23: a decision with a valid code whose port call fails returns error,
\* grants nothing, writes no authorized row and emits no notification, and
\* it ends the waiting of the device: the device is not left in the pending
\* table without a timer.
C23_PortFailureIsTerminal ==
    PortFailedDecision(last) =>
        /\ last.result = "error"
        /\ NothingGranted(last)
        /\ \/ last.device_id \notin DOMAIN pending_authorizations
           \/ /\ last.device_id \in DOMAIN timeout_timers
              /\ TimersOf(last.device_id) # {}

\* ---------------------------------------------------- claims about the port
PortCalls == {"block_device", "allow_device", "set_power_only_mode"}

\* C24: the port never raises: block_device, allow_device and
\* set_power_only_mode answer True or False for every device id, and False
\* when the device does not exist or the write fails; and every decision
\* request, whatever its device id, code and mode, ends with one of the
\* results of the decision handler, not with an exception.
C24_PortNeverRaises ==
    /\ last.op \in PortCalls =>
          /\ last.result \in {"True", "False"}
          /\ (last.device_id \notin present \/ ~last.io)
                => last.result = "False"
    /\ last.op = "decision" => last.result \in DecisionResults

\* ------------------------------------------- claims about order and frames
\* effect e comes before position i of trace t
Before(t, i, e) == \E j \in 1..(i - 1) : t[j] = e

\* C25: for a valid full decision the port call comes first, then the
\* removal of the pending entry, then the AuthorizationResult notification:
\* no handler emits the notification of a pending device before it has
\* removed the entry, and the entry is removed only after allow_device has
\* returned True.
C25_PortThenTableThenNotification ==
    LET t == last.trace
        d == last.device_id
    IN  /\ (last.op \in {"decision", "timeout"} /\ last.was_pending) =>
              \A i \in 1..Len(t) :
                 (t[i].kind = "signal" /\ t[i].name = "AuthorizationResult")
                    => Before(t, i, PendingDelete(d))
        /\ VerifiedDecision(last, "full") =>
              \A i \in 1..Len(t) :
                 t[i].kind = "pending_delete"
                    => Before(t, i, Call("allow_device", d, TRUE))

\* C26: handling a disconnect makes no call of the authorization port: it
\* writes the disconnected row, removes the pending entry and the timer of
\* the device when there are any, emits DeviceDisconnected, and leaves the
\* pending entries and the timers of every other device as they were.
C26_DisconnectTouchesOneDevice ==
    /\ [](last.op = "disconnect" =>
            LET d == last.device_id
                t == last.trace
            IN  /\ Calls(t) = <<>>
                /\ Rows(t) = <<Row("disconnected", d, NoDetails)>>
                /\ FirstKind(t, "row") = 1
                /\ Signals(t) = <<Signal("DeviceDisconnected", d, "", FALSE)>>
                /\ d \notin DOMAIN pending_authorizations
                /\ d \notin DOMAIN timeout_timers
                /\ TimersOf(d) = {})
    /\ [][(last' # last /\ last'.op = "disconnect") =>
            \A e \in Devices \ {last'.device_id} :
               /\ e \in DOMAIN pending_authorizations'
                     <=> e \in DOMAIN pending_authorizations
               /\ e \in DOMAIN pending_authorizations
                     => pending_authorizations'[e] = pending_authorizations[e]
               /\ e \in DOMAIN timeout_timers' <=> e \in DOMAIN timeout_timers
               /\ e \in DOMAIN timeout_timers
                     => timeout_timers'[e] = timeout_timers[e]
               /\ {s \in sources' : s.device_id = e} = TimersOf(e)
               /\ authorized'[e] = authorized[e]]_vars

\* a pending device was disconnected while the other device waits with its
\* timer armed
C26_Witness ==
    /\ last.op = "disconnect" /\ last.was_pending
    /\ FirstKind(last.trace, "source_remove") # 0
    /\ \E e \in DOMAIN pending_authorizations :
          /\ e # last.device_id
          /\ e \in DOMAIN timeout_timers
          /\ TimersOf(e) # {}

\* a step that leaves no device with full access that did not have it
GrantsNothing ==
    \A e \in Devices : authorized'[e] = "1" => authorized[e] = "1"

\* C27: power-only never grants data access: set_power_only_mode writes "0",
\* the value of Blocked, and never "1"; a power_only decision calls no other
\* port function, and after it, successful or not, no device has full
\* access that did not have it before.
C27_PowerOnlyGrantsNoData ==
    /\ [][(last' # last /\ last'.op = "set_power_only_mode")
          => /\ GrantsNothing
             /\ last'.result = "True" => authorized'[last'.device_id] = "0"]_vars
    /\ [][(last' # last /\ last'.op = "decision" /\ last'.mode = "power_only")
          => /\ GrantsNothing
             /\ \A i \in 1..Len(last'.trace) :
                   last'.trace[i].kind = "call"
                      => last'.trace[i].name = "set_power_only_mode"
             /\ last'.result = "success"
                   => authorized'[last'.device_id] = "0"]_vars

\* a power_only decision with a valid code has succeeded for a pending device
C27_Witness ==
    /\ VerifiedDecision(last, "power_only")
    /\ last.result = "success"
    /\ Has(last.trace, Call("set_power_only_mode", last.device_id, TRUE))
    /\ authorized[last.device_id] = "0"

\* C28: applying Blocked is idempotent: for a device that exists and whose
\* authorized file can be written, block_device returns True whatever the
\* value of the file, and a second call in a row returns True again and
\* leaves the value the first call has written.
C28_BlockIsIdempotent ==
    /\ []((/\ last.op = "block_device"
           /\ last.device_id \in present
           /\ last.io)
          => /\ last.result = "True"
             /\ authorized[last.device_id] = "0")
    /\ [][(/\ last' # last
           /\ last'.op = "block_device"
           /\ last'.nth > 1
           /\ last.result = "True"
           /\ last'.io)
          => /\ last'.result = "True"
             /\ authorized' = authorized]_vars

\* block_device has been called twice in a row for a device and has returned
\* True both times
C28_Witness ==
    /\ last.op = "block_device"
    /\ last.nth = MaxRepeat
    /\ last.result = "True"
    /\ authorized[last.device_id] = "0"

\* ------------------------------------------- claims about the configuration
\* C29: set_timeout stores max(10, min(300, seconds)): 10 for a value below
\* 10, 300 for a value above 300, the value itself otherwise; whatever the
\* calls made, get_timeout is within 10..300.
C29_TimeoutIsClamped ==
    /\ [][(last' # last /\ last'.op = "set_timeout")
          => LET seconds == last'.seconds
             IN  /\ seconds < 10 => timeout_seconds' = 10
                 /\ seconds > 300 => timeout_seconds' = 300
                 /\ seconds \in 10..300 => timeout_seconds' = seconds]_vars
    /\ [](get_timeout \in 10..300)

\* set_timeout was given a value above the maximum and has stored the maximum
C29_Witness ==
    /\ last.op = "set_timeout"
    /\ last.seconds > 300
    /\ get_timeout = 300

\* --------------------------------------- claims about the recovery-code hash
SameLetter(x, y) == x = y \/ LowerChar(x) = y \/ x = LowerChar(y)

RECURSIVE Alike(_, _)
\* the codes a and b differ in the case of their letters and in dashes only
Alike(a, b) ==
    IF a # <<>> /\ Head(a) = "-" THEN Alike(Tail(a), b)
    ELSE IF b # <<>> /\ Head(b) = "-" THEN Alike(a, Tail(b))
    ELSE IF a = <<>> \/ b = <<>> THEN a = b
    ELSE SameLetter(Head(a), Head(b)) /\ Alike(Tail(a), Tail(b))

\* C30: hashing a recovery code is insensitive to the case of the letters
\* and to dashes: hash_code(code) equals hash_code of the code in lower case
\* without its dashes, and verify_code answers True for every code that
\* differs from the hashed one in case and dashes only.
C30_HashIgnoresCaseAndDashes ==
    /\ last.op = "hash_code"
          => last.result = hash_code(Remove(Lower(last.code), "-"))
    /\ last.op = "recovery_verify_code"
          => \A code \in TypedCodes :
                (stored_codes = <<hash_code(code)>> /\ Alike(last.code, code))
                   => last.result = "True"

\* a code typed in lower case with a dash was verified against the hash of
\* its upper-case form
C30_Witness ==
    /\ last.op = "recovery_verify_code"
    /\ last.result = "True"
    /\ last.code = <<"a", "-">>
    /\ stored_codes = <<hash_code(<<"A">>)>>

\* ------------------------------------- claims about the form of the code
\* the code is a stored, unused recovery code once its spaces and dashes are
\* taken out
UnusedRecoveryCode(code) ==
    /\ InSeq(hash_code(Stripped(code)), recovery_codes)
    /\ InSeq(hash_code(Stripped(code)), stored_codes)

\* C31: verification strips spaces and dashes from the presented code before
\* the TOTP check and before the recovery check: a code that is a valid TOTP
\* code, or a stored unused recovery code, once its spaces and dashes are
\* taken out is accepted.
C31_SeparatorsAreStripped ==
    [][(/\ Called("verify_authentication")
        /\ last'.code # NoCode
        /\ \/ /\ TotpVerify(Stripped(last'.code), DefaultWindow, now)
              /\ ~Replayed(last'.code)
           \/ UnusedRecoveryCode(last'.code))
       => last'.result = "True"]_vars

\* ---------------------------------- claims about decisions and credentials
\* C32: a decision that ends with auth_failed or error removes no recovery
\* code, neither from the daemon's list nor from the store; a decision
\* removes one only when it ends with the port call applied and the pending
\* entry of the device removed.
C32_FailedDecisionKeepsCodes ==
    [][Called("decision")
       => /\ last'.result \in {"auth_failed", "error"}
               => UNCHANGED <<recovery_codes, stored_codes>>
          /\ (recovery_codes' # recovery_codes \/ stored_codes' # stored_codes)
               => /\ last'.result = "success"
                  /\ \E e \in {Call("allow_device", last'.device_id, TRUE),
                                Call("set_power_only_mode", last'.device_id, TRUE)} :
                        Has(last'.trace, e)
                  /\ last'.device_id \notin DOMAIN pending_authorizations']_vars

\* ------------------------------------------- claims about the udev monitor
\* the step hands an event of device d to the daemon's callback, which runs
\* the handler op
Delivered(d, op) ==
    /\ last'.op = op /\ last'.device_id = d
    /\ last' # last \/ next_source_id' # next_source_id

AddKey(d) == <<d, "add">>

C34_PendingIffTimer ==
    /\ DOMAIN pending_authorizations = DOMAIN timeout_timers
    /\ \A d \in DOMAIN pending_authorizations :
          /\ Cardinality(TimersOf(d)) = 1
          /\ \A src \in TimersOf(d) : src.id = timeout_timers[d]
    /\ \A src \in sources : src.device_id \in DOMAIN pending_authorizations

\* C35: when a handler of the daemon has returned, the devices the D-Bus
\* service lists as pending (pending_requests, the answer of
\* GetPendingDevices) are the devices in pending_authorizations.
C35_ServiceListsThePending ==
    pending_requests = DOMAIN pending_authorizations

\* a decision was refused for a pending device: the daemon and the D-Bus
\* service both still list it
C35_Witness ==
    /\ last.op = "decision" /\ last.result = "auth_failed" /\ last.was_pending
    /\ last.device_id \in pending_requests
    /\ last.device_id \in DOMAIN pending_authorizations

\* the step runs the timeout callback of a device that is not pending
StaleTimeout ==
    /\ last'.op = "timeout" /\ ~last'.was_pending
    /\ sources' # sources

\* C36: the timeout callback of a device that is no longer pending makes no
\* port call, writes no audit row and emits no notification; it drops the
\* timer reference of the device and returns False, which destroys its
\* timer, and changes nothing else.
C36_StaleTimeoutDoesNothing ==
    [][StaleTimeout
       => /\ last'.trace = <<>>
          /\ last'.result = "False"
          /\ last'.device_id \notin DOMAIN timeout_timers'
          /\ \E src \in sources : /\ src.device_id = last'.device_id
                                  /\ sources' = sources \ {src}
          /\ UNCHANGED <<authorized, pending_authorizations,
                         pending_requests, instance>>]_vars

\* the timer of an unplugged device fired while its disconnect handler had
\* taken it from the pending table and not yet cancelled the timer
C36_Witness ==
    /\ last.op = "timeout" /\ ~last.was_pending
    /\ last.trace = <<>>
    /\ monitor_pc.pc = "cancelling"
    /\ monitor_pc.device_id = last.device_id
    /\ last.device_id \notin DOMAIN timeout_timers

\* ------------------------------------------ claims about the desktop ports
\* the step runs a timer callback of the app: that of the single-shot timer
\* of a pending entry or that of the countdown of a dialog
TimerCallback ==
    /\ last'.op \in {"app_timeout", "tick"}
    /\ dialogs' # dialogs \/ pending' # pending

IsDeniedRow(e) == e.kind = "row" /\ e.name = "denied"

\* C37: once a device has its terminal outcome (authorized, power-only,
\* denied by the user or by the timeout), no timer callback of the app calls
\* the device blocker for it or writes a denied row for it: neither the
\* single-shot timer of the app nor the countdown of the dialog.
C37_NoDenialAfterOutcome ==
    [][(TimerCallback /\ last'.was_settled)
       => /\ Calls(last'.trace) = <<>>
          /\ SelectSeq(last'.trace, IsDeniedRow) = <<>>]_vars

\* the step is the enumeration of a pass of the poller thread, which settles
\* the events the pass queues
Enumerated == poll.pc = "sleeping" /\ poll'.pc = "putting"

\* C38: whatever the enumerations return, the poller queues no remove event
\* for a device that is physically connected, and no add event for a device
\* for which it has queued one since the device was plugged in: a device
\* that stays connected gets one add event and no remove event.
C38_ConnectedDeviceOneAdd ==
    [][Enumerated
       => \A i \in DOMAIN poll'.todo :
             LET e == poll'.todo[i]
             IN  /\ e.action = "remove" => e.device_id \notin attached
                 /\ e.action = "add" => e.device_id \notin observed.announced]_vars

\* the action may follow prev among the events of one device
Follows(prev, action) ==
    IF action = "add" THEN prev \in {"none", "remove"} ELSE prev = "add"

\* the events of device d that wait in the queue or in the drained list
Waiting(d) == SelectSeq(drained \o events, LAMBDA e : e.device_id = d)

\* C39: the events queued for one device alternate add, remove, add, ...,
\* beginning with add, and the main thread dispatches the events in the order
\* in which the poller thread has queued them: the app never sees two adds
\* of a device without a remove between them, nor a remove before the first
\* add.
C39_EventsAlternateInOrder ==
    /\ [](\A d \in Devices :
             \A i \in DOMAIN Waiting(d) :
                Follows(IF i = 1 THEN observed.seen[d] ELSE Waiting(d)[i - 1].action,
                        Waiting(d)[i].action))
    /\ [](\A i \in DOMAIN (drained \o events) :
             (drained \o events)[i].n = observed.count + i)
    /\ [][observed'.count # observed.count
          => /\ drained # <<>>
             /\ Head(drained).n = observed'.count
             /\ observed'.count = observed.count + 1
             /\ \A d \in Devices :
                   observed'.seen[d] # observed.seen[d]
                   => /\ d = Head(drained).device_id
                      /\ Follows(observed.seen[d], observed'.seen[d])
             /\ observed'.seen[Head(drained).device_id] = Head(drained).action
             /\ last'.device_id = Head(drained).device_id
             /\ last'.op = IF Head(drained).action = "add" THEN "app_connect"
                           ELSE "app_remove"]_vars

\* the app has seen the add, the remove and the second add of a device, and
\* nothing of the other device
C39_Witness ==
    \E d \in Devices :
        /\ observed.count = 3
        /\ observed.seen[d] = "add"
        /\ \A o \in Devices \ {d} : observed.seen[o] = "none"
        /\ last.op = "app_connect" /\ last.device_id = d

====
